---- MODULE Spec2Model ----
(***************************************************************************)
(* PilotCRM: the server-side account store (lib/store), the mutation       *)
(* endpoint POST /api/crm with its post-call rule engine, the pipeline     *)
(* statistics of GET /api/crm, the copilot action moveAccountToStage of    *)
(* the page, and the derived state they maintain.                          *)
(*                                                                         *)
(* Representation.  Strings that the code pattern-matches (company names,  *)
(* stage strings of a request, pain points) are sequences of one-character *)
(* strings, so toLowerCase, replace and includes are computed.  Stage and  *)
(* tag values, which the code only compares with ===, are TLA+ strings.    *)
(* Messages and notes are sequences of text fragments.  An optional value  *)
(* (undefined / null in the code) is <<>> when absent and <<v>> when       *)
(* present.  Dates are day numbers.  Ids "acc-N" and "s-N" are the         *)
(* integer N.  The arrow of the stage-change message is written "->" and   *)
(* the warning sign of the at-risk note is left out.                       *)
(***************************************************************************)
EXTENDS Integers, Sequences, FiniteSets, TLC

VARIABLES store, counter, file, diskOk, now, nreq, last, ui, suspended, apiKey

vars == <<store, counter, file, diskOk, now, nreq, last, ui, suspended, apiKey>>

(***************************************************************************)
(* Bounds of the model.                                                    *)
(***************************************************************************)
MaxRequests == 2
MaxSeed == 2
MaxNow == 1

(***************************************************************************)
(* Optional values.                                                        *)
(***************************************************************************)
None == <<>>

Some(v) == <<v>>

Has(o) == o # <<>>

Val(o) == o[1]

OrElse(o, d) == IF Has(o) THEN Val(o) ELSE d

(***************************************************************************)
(* String primitives of the runtime, on sequences of characters.           *)
(***************************************************************************)
UpperChars == <<"A", "B", "C", "D", "E", "F", "G", "H", "I", "J", "K", "L", "M",
                "N", "O", "P", "Q", "R", "S", "T", "U", "V", "W", "X", "Y", "Z">>

LowerChars == <<"a", "b", "c", "d", "e", "f", "g", "h", "i", "j", "k", "l", "m",
                "n", "o", "p", "q", "r", "s", "t", "u", "v", "w", "x", "y", "z">>

LowerChar(c) ==
  IF \E i \in 1..26 : UpperChars[i] = c
    THEN LowerChars[CHOOSE i \in 1..26 : UpperChars[i] = c]
    ELSE c

toLowerCase(s) == [i \in 1..Len(s) |-> LowerChar(s[i])]

includes(hay, needle) ==
  \E i \in 0..(Len(hay) - Len(needle)) : SubSeq(hay, i + 1, i + Len(needle)) = needle

IsSpace(c) == c \in {" ", "\t", "\n"}

RECURSIVE replaceSpaces(_)
(* s.replace(/\s+/g, "_"): every maximal run of whitespace becomes one "_" *)
replaceSpaces(s) ==
  IF s = <<>> THEN <<>>
  ELSE IF IsSpace(Head(s))
    THEN IF Len(s) > 1 /\ IsSpace(s[2])
           THEN replaceSpaces(Tail(s))
           ELSE <<"_">> \o replaceSpaces(Tail(s))
    ELSE <<Head(s)>> \o replaceSpaces(Tail(s))

RECURSIVE join(_, _)
(* array.join(sep) *)
join(arr, sep) ==
  IF arr = <<>> THEN <<>>
  ELSE IF Len(arr) = 1 THEN arr[1]
  ELSE arr[1] \o sep \o join(Tail(arr), sep)

(* array.indexOf / findIndex, 1-based; 0 stands for the code's -1 *)
indexOf(arr, v) ==
  IF \E i \in 1..Len(arr) : arr[i] = v
    THEN CHOOSE i \in 1..Len(arr) : arr[i] = v /\ \A j \in 1..(i - 1) : arr[j] # v
    ELSE 0

arrayIncludes(arr, v) == \E i \in 1..Len(arr) : arr[i] = v

(* array.splice(idx, 1) *)
splice1(arr, idx) == SubSeq(arr, 1, idx - 1) \o SubSeq(arr, idx + 1, Len(arr))

(* clamp without the lower bound *)
clampUpperOnly(x) == IF x > 100 THEN 100 ELSE x

(* Math.max(0, Math.min(100, x)) *)
clamp(x) == IF x > 100 THEN 100 ELSE IF x < 0 THEN 0 ELSE x

(***************************************************************************)
(* Stages.                                                                 *)
(***************************************************************************)
VALID_STAGES == <<"lead", "discovery", "proposal", "negotiation", "closed_won", "closed_lost">>

stageOrder == <<"lead", "discovery", "proposal", "negotiation">>

StageSet == {VALID_STAGES[i] : i \in 1..Len(VALID_STAGES)}

(* the characters of a stage value *)
StageChars(s) ==
  CASE s = "lead" -> <<"l", "e", "a", "d">>
    [] s = "discovery" -> <<"d", "i", "s", "c", "o", "v", "e", "r", "y">>
    [] s = "proposal" -> <<"p", "r", "o", "p", "o", "s", "a", "l">>
    [] s = "negotiation" -> <<"n", "e", "g", "o", "t", "i", "a", "t", "i", "o", "n">>
    [] s = "closed_won" -> <<"c", "l", "o", "s", "e", "d", "_", "w", "o", "n">>
    [] s = "closed_lost" -> <<"c", "l", "o", "s", "e", "d", "_", "l", "o", "s", "t">>

fmtStage(stage) ==
  CASE stage = "lead" -> "Lead"
    [] stage = "discovery" -> "Discovery"
    [] stage = "proposal" -> "Proposal"
    [] stage = "negotiation" -> "Negotiation"
    [] stage = "closed_won" -> "Closed Won"
    [] stage = "closed_lost" -> "Closed Lost"
    [] OTHER -> stage

(***************************************************************************)
(* Seed dataset (lib/data), the first MaxSeed entries of each collection;   *)
(* deal values in thousands, one note per account.                         *)
(***************************************************************************)
MeridianHealth == <<"M", "e", "r", "i", "d", "i", "a", "n", " ", "H", "e", "a", "l", "t", "h">>

NovaPay == <<"N", "o", "v", "a", "P", "a", "y", " ", "T", "e", "c", "h", "n", "o", "l", "o",
      "g", "i", "e", "s">>

BrightLoop == <<"B", "r", "i", "g", "h", "t", "L", "o", "o", "p", " ", "E", "d", "u", "c", "a",
      "t", "i", "o", "n">>

SarahChen ==
  <<"D", "r", ".", " ", "S", "a", "r", "a", "h", " ", "C", "h", "e", "n">>

SEED_ACCOUNTS ==
  << [id |-> 1, company |-> MeridianHealth, contactName |-> SarahChen, stage |-> "negotiation",
        dealValue |-> 240,
      likelihood |-> 62, notes |-> << <<"200-person dev team, heavily regulated environment.">> >>,
      lastContactDate |-> -1, nextFollowUp |-> Some(2),
      tags |-> <<"enterprise">>],
     [id |-> 2, company |-> NovaPay, contactName |-> <<"M", "a", "r", "c", "u", "s", " ", "R",
           "i", "v", "e", "r", "a">>, stage |-> "proposal", dealValue |-> 96,
      likelihood |-> 78, notes |-> << <<"Series B fintech, 80 engineers.">> >>,
      lastContactDate |-> -3, nextFollowUp |-> Some(5),
      tags |-> <<"high-priority">>],
     [id |-> 3, company |-> BrightLoop, contactName |-> <<"P", "r", "i", "y", "a", " ", "S",
           "h", "a", "r", "m", "a">>, stage |-> "discovery", dealValue |-> 24,
      likelihood |-> 85, notes |-> << <<"Small team (20 devs) but incredibly enthusiastic.">> >>,
      lastContactDate |-> -2, nextFollowUp |-> Some(7),
      tags |-> <<>>] >>

SEED_CALL_RECORDS ==
  << [id |-> 1, accountId |-> 1, date |-> -1, duration |-> 1260, transcript |-> <<>>,
      sentiment |-> Some([score |-> 7]), outcome |-> <<"Sending SOC 2 report">>],
     [id |-> 2, accountId |-> 1, date |-> -8, duration |-> 900, transcript |-> <<>>,
      sentiment |-> Some([score |-> 8]), outcome |-> <<"Scheduling deep-dive">>],
     [id |-> 3, accountId |-> 2, date |-> -3, duration |-> 1080, transcript |-> <<>>,
      sentiment |-> Some([score |-> 9]), outcome |-> <<"Sending pricing proposal">>] >>

SEED_ACTIVITIES ==
  << [id |-> 1, accountId |-> 1, type |-> "stage_change",
      message |-> <<"Stage changed from ", "Proposal", " ", "->", " ", "Negotiation">>,
      timestamp |-> -7],
     [id |-> 2, accountId |-> 1, type |-> "email",
      message |-> <<"Sent SOC 2 Type II report to Sarah Chen">>, timestamp |-> -1],
     [id |-> 3, accountId |-> 1, type |-> "call",
      message |-> <<"Call with Sarah Chen">>, timestamp |-> -1] >>

SeedStore ==
  [accounts |-> SubSeq(SEED_ACCOUNTS, 1, MaxSeed),
   callRecords |-> SubSeq(SEED_CALL_RECORDS, 1, MaxSeed),
   activities |-> SubSeq(SEED_ACTIVITIES, 1, MaxSeed)]

(***************************************************************************)
(* The store: query helpers.  A world w is the module state of lib/store   *)
(* together with the snapshot file: [store, counter, file].                *)
(***************************************************************************)
NoFile == <<>>

FindIndex(accts, id) ==
  IF \E i \in 1..Len(accts) : accts[i].id = id
    THEN CHOOSE i \in 1..Len(accts) :
           accts[i].id = id /\ \A j \in 1..(i - 1) : accts[j].id # id
    ELSE 0

(* getAccount: the found account as an optional value *)
getAccount(w, id) ==
  LET i == FindIndex(w.store.accounts, id)
  IN IF i = 0 THEN None ELSE Some(w.store.accounts[i])

getAccountByCompany(w, name) ==
  LET lower == toLowerCase(name)
      accts == w.store.accounts
      exact == {i \in 1..Len(accts) : toLowerCase(accts[i].company) = lower}
      partial == {i \in 1..Len(accts) : includes(toLowerCase(accts[i].company), lower)}
      first(S) == CHOOSE i \in S : \A j \in S : i <= j
  IN IF exact # {} THEN Some(accts[first(exact)])
     ELSE IF partial # {} THEN Some(accts[first(partial)])
     ELSE None

(***************************************************************************)
(* The store: load and save.                                               *)
(***************************************************************************)
ArrowUndefined == <<"->", " ", "undefined">>

(* a load that keeps whatever stage the snapshot holds *)
sanitizeStageKeep(acct) == acct

sanitizeStage(acct) ==
  IF arrayIncludes(VALID_STAGES, acct.stage) THEN acct ELSE [acct EXCEPT !.stage = "lead"]

(* the value undefined where a string is expected, and JSON's null, each   *)
(* written as a text that no string of the program is                      *)
Undefined == <<"(undefined)">>

(* a.message.includes throws a TypeError when the message is undefined;    *)
(* the catch around the whole load answers it with the seed                *)
loadStore(f) ==
  IF f # NoFile /\ Len(Val(f).accounts) > 0
    THEN LET parsed == Val(f)
             keep(a) == ~includes(a.message, ArrowUndefined)
         IN IF \E i \in 1..Len(parsed.activities) : parsed.activities[i].message = Undefined
              THEN SeedStore
              ELSE [accounts |->
                      [i \in 1..Len(parsed.accounts) |-> sanitizeStage(parsed.accounts[i])],
                    callRecords |-> parsed.callRecords,
                    activities |-> SelectSeq(parsed.activities, keep)]
    ELSE SeedStore

(* JSON.parse(JSON.stringify(data)): an undefined array element is written *)
(* as null, an undefined property is left out and reads as undefined       *)
stringify(data) ==
  [data EXCEPT !.accounts =
     [i \in 1..Len(data.accounts) |->
        [data.accounts[i] EXCEPT !.notes =
           [j \in 1..Len(data.accounts[i].notes) |->
              IF data.accounts[i].notes[j] = Undefined THEN <<"(null)">>
              ELSE data.accounts[i].notes[j]]]]]

(* a save whose write cannot fail *)
persistAlways(w, ok) == [w EXCEPT !.file = Some(stringify(w.store))]

(* persist: ok is whether fs.writeFileSync succeeds; a failure is caught *)
persist(w, ok) == IF ok THEN [w EXCEPT !.file = Some(stringify(w.store))] ELSE w

(* a route that leaves the snapshot as the store helpers wrote it *)
persistFromRouteSkip(w, ok) == w

(* persistFromRoute is imported by the route from lib/store *)
persistFromRoute(w, ok) == persist(w, ok)

(* uid: the id it returns; the caller advances the counter *)
uid(w) == w.counter + 1

pushActivity(w, accountId, type, message, timestamp) ==
  [w EXCEPT !.counter = uid(w),
            !.store.activities =
              Append(@, [id |-> uid(w), accountId |-> accountId, type |-> type,
                         message |-> message, timestamp |-> timestamp])]

(***************************************************************************)
(* The store: mutation helpers.                                            *)
(***************************************************************************)
(* a stage update that also records an unchanged stage *)
updateAccountStageAlways(w, id, stage, ok, t) ==
  LET i == FindIndex(w.store.accounts, id)
  IN IF i = 0 THEN w
     ELSE IF ~arrayIncludes(VALID_STAGES, stage) THEN w
     ELSE LET oldStage == w.store.accounts[i].stage
              w1 == [w EXCEPT !.store.accounts[i].stage = stage]
              w2 == pushActivity(w1, id, "stage_change",
                                 <<"Stage changed from ", fmtStage(oldStage), " ", "->", " ",
                                   fmtStage(stage)>>, t)
          IN persist(w2, ok)

updateAccountStage(w, id, stage, ok, t) ==
  LET i == FindIndex(w.store.accounts, id)
  IN IF i = 0 THEN w
     ELSE IF ~arrayIncludes(VALID_STAGES, stage) THEN w
     ELSE IF w.store.accounts[i].stage = stage THEN w
     ELSE LET oldStage == w.store.accounts[i].stage
              w1 == [w EXCEPT !.store.accounts[i].stage = stage]
              w2 == pushActivity(w1, id, "stage_change",
                                 <<"Stage changed from ", fmtStage(oldStage), " ", "->", " ",
                                   fmtStage(stage)>>, t)
          IN persist(w2, ok)

(* a write that never lowers the stored value *)
updateAccountLikelihoodKeepHigher(w, id, likelihood, ok) ==
  LET i == FindIndex(w.store.accounts, id)
  IN IF i = 0 THEN w
     ELSE IF clamp(likelihood) < w.store.accounts[i].likelihood THEN persist(w, ok)
     ELSE persist([w EXCEPT !.store.accounts[i].likelihood = clamp(likelihood)], ok)

updateAccountLikelihood(w, id, likelihood, ok) ==
  LET i == FindIndex(w.store.accounts, id)
  IN IF i = 0 THEN w
     ELSE persist([w EXCEPT !.store.accounts[i].likelihood = clamp(likelihood)], ok)

addNoteToAccount(w, id, note, ok, t) ==
  LET i == FindIndex(w.store.accounts, id)
  IN IF i = 0 THEN w
     ELSE LET w1 == [w EXCEPT !.store.accounts[i].notes = Append(@, note)]
              w2 == pushActivity(w1, id, "note", note, t)
          IN persist(w2, ok)

addCallRecord(w, accountId, record, ok) ==
  LET newRecord == [id |-> uid(w), accountId |-> record.accountId, date |-> record.date,
                    duration |-> record.duration, transcript |-> record.transcript,
                    sentiment |-> record.sentiment, outcome |-> record.outcome]
      w1 == [w EXCEPT !.counter = uid(w), !.store.callRecords = Append(@, newRecord)]
      i == FindIndex(w1.store.accounts, accountId)
      w2 == IF i = 0 THEN w1
            ELSE [w1 EXCEPT !.store.accounts[i].lastContactDate = record.date]
      w3 == pushActivity(w2, accountId, "call",
                         <<"Call recorded - ">> \o record.outcome
                           \o <<" (", ToString((record.duration + 30) \div 60), " min)">>,
                         record.date)
  IN persist(w3, ok)

createAccount(w, data, ok, t) ==
  LET newAccount == [id |-> uid(w), company |-> data.company,
                     contactName |-> data.contactName, stage |-> "lead",
                     dealValue |-> data.dealValue, likelihood |-> 25, notes |-> data.notes,
                     lastContactDate |-> t, nextFollowUp |-> Some(t + 3),
                     tags |-> <<"inbound">>]
      w1 == [w EXCEPT !.counter = uid(w), !.store.accounts = Append(@, newAccount)]
      w2 == pushActivity(w1, newAccount.id, "note",
                         <<"New inbound lead: ">> \o data.company, t)
  IN persist(w2, ok)

(* a flag that writes its note only when it adds the tag *)
flagAccountRiskQuiet(w, id, reason, ok, t) ==
  LET i == FindIndex(w.store.accounts, id)
  IN IF i = 0 THEN w
     ELSE IF arrayIncludes(w.store.accounts[i].tags, "at-risk") THEN w
     ELSE addNoteToAccount([w EXCEPT !.store.accounts[i].tags = Append(@, "at-risk")],
                           id, <<"AT-RISK: ">> \o reason, ok, t)

flagAccountRisk(w, id, reason, ok, t) ==
  LET i == FindIndex(w.store.accounts, id)
  IN IF i = 0 THEN w
     ELSE LET w1 == IF arrayIncludes(w.store.accounts[i].tags, "at-risk") THEN w
                    ELSE [w EXCEPT !.store.accounts[i].tags = Append(@, "at-risk")]
          IN addNoteToAccount(w1, id, <<"AT-RISK: ">> \o reason, ok, t)

(***************************************************************************)
(* POST /api/crm: the likelihood blend.  The code evaluates                *)
(* Math.round(old * 0.3 + ltc * 0.7) in IEEE double arithmetic.  With      *)
(* n = 3*old + 7*ltc the exact value is n/10; Math.round rounds a tie up,  *)
(* but 0.3 and 0.7 are not representable, and for the pairs <<old, ltc>>   *)
(* of BlendBelowHalf (old in 0..100, ltc in -50..150) the double result of *)
(* an exact tie k + 0.5 lies just below it and rounds to k.                *)
(***************************************************************************)
BlendBelowHalf ==
  {
    <<96, -19>>, <<57, -18>>, <<67, -18>>, <<77, -18>>, <<87, -18>>, <<62, -13>>, <<72, -13>>,
    <<82, -13>>, <<36, -9>>, <<46, -9>>, <<96, -9>>, <<57, -8>>, <<67, -8>>, <<31, -4>>,
    <<53, -2>>, <<24, -1>>, <<36, 1>>, <<46, 1>>, <<96, 1>>, <<57, 2>>, <<67, 2>>, <<77, 2>>,
    <<87, 2>>, <<97, 2>>, <<18, 3>>, <<1, 6>>, <<11, 6>>, <<31, 6>>, <<2, 7>>, <<62, 7>>,
    <<72, 7>>, <<82, 7>>, <<7, 12>>, <<17, 12>>, <<57, 12>>, <<67, 12>>, <<77, 12>>, <<9, 14>>,
    <<2, 17>>, <<12, 17>>, <<62, 17>>, <<4, 19>>, <<8, 23>>, <<18, 23>>, <<48, 23>>, <<9, 24>>,
    <<19, 24>>, <<29, 24>>, <<39, 24>>, <<49, 24>>, <<3, 28>>, <<13, 28>>, <<23, 28>>,
    <<4, 29>>, <<14, 29>>, <<24, 29>>, <<34, 29>>, <<8, 33>>, <<18, 33>>, <<9, 34>>,
    <<19, 34>>, <<3, 38>>, <<13, 38>>, <<4, 39>>, <<14, 39>>, <<0, 45>>, <<1, 46>>, <<11, 46>>,
    <<21, 46>>, <<31, 46>>, <<41, 46>>, <<51, 46>>, <<3, 48>>, <<13, 48>>, <<23, 48>>,
    <<33, 48>>, <<43, 48>>, <<53, 48>>, <<63, 48>>, <<73, 48>>, <<83, 48>>, <<93, 48>>,
    <<6, 51>>, <<16, 51>>, <<26, 51>>, <<36, 51>>, <<46, 51>>, <<8, 53>>, <<18, 53>>,
    <<28, 53>>, <<38, 53>>, <<48, 53>>, <<58, 53>>, <<68, 53>>, <<78, 53>>, <<88, 53>>,
    <<1, 56>>, <<11, 56>>, <<21, 56>>, <<31, 56>>, <<41, 56>>, <<51, 56>>, <<3, 58>>,
    <<13, 58>>, <<23, 58>>, <<33, 58>>, <<43, 58>>, <<53, 58>>, <<63, 58>>, <<73, 58>>,
    <<6, 61>>, <<16, 61>>, <<26, 61>>, <<36, 61>>, <<46, 61>>, <<8, 63>>, <<18, 63>>,
    <<28, 63>>, <<38, 63>>, <<48, 63>>, <<58, 63>>, <<1, 66>>, <<11, 66>>, <<21, 66>>,
    <<31, 66>>, <<41, 66>>, <<51, 66>>, <<3, 68>>, <<13, 68>>, <<23, 68>>, <<33, 68>>,
    <<43, 68>>, <<53, 68>>, <<6, 71>>, <<16, 71>>, <<26, 71>>, <<36, 71>>, <<46, 71>>,
    <<8, 73>>, <<18, 73>>, <<28, 73>>, <<38, 73>>, <<1, 76>>, <<11, 76>>, <<21, 76>>,
    <<31, 76>>, <<3, 78>>, <<13, 78>>, <<23, 78>>, <<6, 81>>, <<16, 81>>, <<8, 83>>,
    <<18, 83>>, <<0, 85>>, <<10, 85>>, <<1, 86>>, <<11, 86>>, <<3, 88>>, <<7, 92>>, <<17, 92>>,
    <<27, 92>>, <<37, 92>>, <<47, 92>>, <<57, 92>>, <<67, 92>>, <<77, 92>>, <<87, 92>>,
    <<97, 92>>, <<1, 96>>, <<11, 96>>, <<21, 96>>, <<31, 96>>, <<41, 96>>, <<51, 96>>,
    <<61, 96>>, <<71, 96>>, <<81, 96>>, <<91, 96>>, <<2, 97>>, <<12, 97>>, <<22, 97>>,
    <<32, 97>>, <<42, 97>>, <<52, 97>>, <<62, 97>>, <<72, 97>>, <<82, 97>>, <<92, 97>>,
    <<6, 101>>, <<16, 101>>, <<26, 101>>, <<36, 101>>, <<46, 101>>, <<56, 101>>, <<66, 101>>,
    <<76, 101>>, <<86, 101>>, <<96, 101>>, <<7, 102>>, <<17, 102>>, <<27, 102>>, <<37, 102>>,
    <<47, 102>>, <<57, 102>>, <<67, 102>>, <<77, 102>>, <<87, 102>>, <<97, 102>>, <<1, 106>>,
    <<11, 106>>, <<21, 106>>, <<31, 106>>, <<41, 106>>, <<51, 106>>, <<61, 106>>, <<71, 106>>,
    <<81, 106>>, <<91, 106>>, <<2, 107>>, <<12, 107>>, <<22, 107>>, <<32, 107>>, <<42, 107>>,
    <<52, 107>>, <<62, 107>>, <<72, 107>>, <<82, 107>>, <<92, 107>>, <<6, 111>>, <<16, 111>>,
    <<26, 111>>, <<36, 111>>, <<46, 111>>, <<56, 111>>, <<66, 111>>, <<76, 111>>, <<86, 111>>,
    <<96, 111>>, <<7, 112>>, <<17, 112>>, <<27, 112>>, <<37, 112>>, <<47, 112>>, <<57, 112>>,
    <<67, 112>>, <<77, 112>>, <<87, 112>>, <<97, 112>>, <<1, 116>>, <<11, 116>>, <<21, 116>>,
    <<31, 116>>, <<41, 116>>, <<51, 116>>, <<61, 116>>, <<71, 116>>, <<81, 116>>, <<91, 116>>,
    <<2, 117>>, <<12, 117>>, <<22, 117>>, <<32, 117>>, <<42, 117>>, <<52, 117>>, <<62, 117>>,
    <<72, 117>>, <<82, 117>>, <<92, 117>>, <<6, 121>>, <<16, 121>>, <<26, 121>>, <<36, 121>>,
    <<46, 121>>, <<56, 121>>, <<66, 121>>, <<76, 121>>, <<86, 121>>, <<96, 121>>, <<7, 122>>,
    <<17, 122>>, <<27, 122>>, <<37, 122>>, <<47, 122>>, <<57, 122>>, <<67, 122>>, <<77, 122>>,
    <<87, 122>>, <<97, 122>>, <<1, 126>>, <<11, 126>>, <<21, 126>>, <<31, 126>>, <<41, 126>>,
    <<51, 126>>, <<61, 126>>, <<71, 126>>, <<81, 126>>, <<91, 126>>, <<2, 127>>, <<12, 127>>,
    <<22, 127>>, <<32, 127>>, <<42, 127>>, <<52, 127>>, <<62, 127>>, <<72, 127>>, <<82, 127>>,
    <<92, 127>>, <<6, 131>>, <<16, 131>>, <<26, 131>>, <<36, 131>>, <<46, 131>>, <<56, 131>>,
    <<66, 131>>, <<76, 131>>, <<86, 131>>, <<96, 131>>, <<7, 132>>, <<17, 132>>, <<27, 132>>,
    <<37, 132>>, <<47, 132>>, <<57, 132>>, <<67, 132>>, <<77, 132>>, <<87, 132>>, <<97, 132>>,
    <<1, 136>>, <<11, 136>>, <<21, 136>>, <<31, 136>>, <<41, 136>>, <<51, 136>>, <<61, 136>>,
    <<71, 136>>, <<81, 136>>, <<91, 136>>, <<2, 137>>, <<12, 137>>, <<22, 137>>, <<32, 137>>,
    <<42, 137>>, <<52, 137>>, <<62, 137>>, <<72, 137>>, <<82, 137>>, <<92, 137>>, <<6, 141>>,
    <<16, 141>>, <<26, 141>>, <<36, 141>>, <<46, 141>>, <<56, 141>>, <<66, 141>>, <<76, 141>>,
    <<86, 141>>, <<96, 141>>, <<7, 142>>, <<17, 142>>, <<27, 142>>, <<37, 142>>, <<47, 142>>,
    <<57, 142>>, <<67, 142>>, <<77, 142>>, <<87, 142>>, <<1, 146>>, <<11, 146>>, <<21, 146>>,
    <<31, 146>>, <<41, 146>>, <<51, 146>>, <<61, 146>>, <<71, 146>>, <<81, 146>>, <<2, 147>>,
    <<12, 147>>, <<22, 147>>, <<32, 147>>, <<42, 147>>, <<52, 147>>, <<62, 147>>, <<72, 147>>,
    <<82, 147>>
  }

(* the plain average of an earlier revision of the route *)
roundBlendAverage(old, ltc) == (old + ltc + 1) \div 2

roundBlend(old, ltc) ==
  LET n == 3 * old + 7 * ltc
  IN IF <<old, ltc>> \in BlendBelowHalf THEN (n + 4) \div 10 ELSE (n + 5) \div 10

(***************************************************************************)
(* POST /api/crm: moveStage, updateLikelihood, flagRisk, createAccount.    *)
(* Each handler yields [w, status] and, for the requests that name an      *)
(* account, the id it resolved.                                            *)
(***************************************************************************)
(* validStages.find(s => s === String(body.stage ?? "").toLowerCase().replace(/\s+/g, "_")) *)
normalizeStage(stageParam) ==
  LET n == replaceSpaces(toLowerCase(OrElse(stageParam, <<>>)))
      hits == {i \in 1..Len(VALID_STAGES) : StageChars(VALID_STAGES[i]) = n}
  IN IF hits = {} THEN None ELSE Some(VALID_STAGES[CHOOSE i \in hits : \A j \in hits : i <= j])

(* body.accountId ?? getAccountByCompany(body.companyName ?? "")?.id *)
resolveAccountId(w, body) ==
  IF Has(body.accountId) THEN body.accountId
  ELSE LET a == getAccountByCompany(w, OrElse(body.companyName, <<>>))
       IN IF Has(a) THEN Some(Val(a).id) ELSE None

moveStage(w, body, ok, t) ==
  LET accountId == resolveAccountId(w, body)
      stage == normalizeStage(body.stage)
  IN IF ~Has(accountId) THEN [w |-> w, status |-> 404, target |-> None]
     ELSE IF ~Has(stage) THEN [w |-> w, status |-> 400, target |-> accountId]
     ELSE [w |-> updateAccountStage(w, Val(accountId), Val(stage), ok, t),
           status |-> 200, target |-> accountId]

updateLikelihood(w, body, ok) ==
  LET acct == getAccountByCompany(w, OrElse(body.companyName, <<>>))
  IN IF ~Has(acct) THEN [w |-> w, status |-> 404, target |-> None]
     ELSE [w |-> updateAccountLikelihood(w, Val(acct).id, body.likelihood, ok),
           status |-> 200, target |-> Some(Val(acct).id),
           old |-> Val(acct).likelihood, now |-> body.likelihood]

addNote(w, body, ok, t) ==
  LET acct == getAccountByCompany(w, OrElse(body.companyName, <<>>))
  IN IF ~Has(acct) THEN [w |-> w, status |-> 404, target |-> None]
     ELSE [w |-> addNoteToAccount(w, Val(acct).id, body.note, ok, t),
           status |-> 200, target |-> Some(Val(acct).id)]

flagRisk(w, body, ok, t) ==
  LET acct == getAccountByCompany(w, OrElse(body.companyName, <<>>))
  IN IF ~Has(acct) THEN [w |-> w, status |-> 404, target |-> None]
     ELSE [w |-> flagAccountRisk(w, Val(acct).id, body.reason, ok, t),
           status |-> 200, target |-> Some(Val(acct).id)]

Unknown == <<"U", "n", "k", "n", "o", "w", "n">>

createAccountReq(w, body, ok, t) ==
  [w |-> createAccount(w, [company |-> OrElse(body.company, Unknown),
                           contactName |-> OrElse(body.contactName, Unknown),
                           dealValue |-> OrElse(body.dealValue, 24),
                           notes |-> OrElse(body.notes, <<>>)], ok, t),
   status |-> 200, target |-> Some(uid(w))]

(***************************************************************************)
(* POST /api/crm: addCall and the post-call rule engine.                   *)
(***************************************************************************)
(* analysis?.overallSentiment ?? body.sentiment?.score ?? null *)
sentimentScoreOf(body) ==
  IF Has(body.analysis) /\ Has(Val(body.analysis).overallSentiment)
    THEN Val(body.analysis).overallSentiment
  ELSE IF Has(body.sentiment) THEN Val(body.sentiment).score
  ELSE None

(* analysis?.likelihoodToClose ?? null *)
likelihoodFromCallOf(body) ==
  IF Has(body.analysis) THEN Val(body.analysis).likelihoodToClose ELSE None

analysisField(body, f) == IF Has(body.analysis) THEN Val(body.analysis)[f] ELSE None

acctOf(w, id) == w.store.accounts[FindIndex(w.store.accounts, id)]

(* 1. likelihood blend *)
Step1(w, id, likelihoodFromCall, ok) ==
  IF Has(likelihoodFromCall)
    THEN updateAccountLikelihood(w, id, roundBlend(acctOf(w, id).likelihood,
                                                   Val(likelihoodFromCall)), ok)
    ELSE w

(* stage adjustment that re-reads the stage index before the advance test and *)
(* regresses from sentiment 4 down *)
Step2Loose(w, id, sentimentScore, outcome, ok, t) ==
  LET currentIdx == indexOf(stageOrder, w.store.accounts[FindIndex(w.store.accounts, id)].stage)
  IN IF Has(sentimentScore) /\ currentIdx >= 1
       THEN LET score == Val(sentimentScore)
                a == IF score <= 4 /\ currentIdx > 1
                       THEN updateAccountStage(w, id, stageOrder[currentIdx - 1], ok, t)
                       ELSE w
                b == IF score <= 3
                       THEN flagAccountRisk(a, id, <<"Negative call">>, ok, t)
                       ELSE a
            IN IF score >= 8 /\ currentIdx < Len(stageOrder)
                 THEN updateAccountStage(b, id, stageOrder[currentIdx + 1], ok, t)
                 ELSE b
       ELSE w

(* 2. stage auto-adjustment; currentIdx is read once, before any change *)
Step2(w, id, sentimentScore, outcome, ok, t) ==
  LET currentIdx == indexOf(stageOrder, acctOf(w, id).stage)
  IN IF Has(sentimentScore) /\ currentIdx >= 1
       THEN LET score == Val(sentimentScore)
                a == IF score <= 3 /\ currentIdx > 1
                       THEN updateAccountStage(w, id, stageOrder[currentIdx - 1], ok, t)
                       ELSE w
                b == IF score <= 3
                       THEN flagAccountRisk(a, id,
                              <<"Negative call - sentiment ", ToString(score), "/10: ">>
                                \o OrElse(outcome, <<"poor engagement">>), ok, t)
                       ELSE a
                c == IF score >= 8 /\ currentIdx < Len(stageOrder)
                       THEN updateAccountStage(b, id, stageOrder[currentIdx + 1], ok, t)
                       ELSE b
            IN c
       ELSE w

(* 3. call summary note *)
Step3(w, id, body, ok, t) ==
  LET summary == IF Has(analysisField(body, "summary"))
                   THEN analysisField(body, "summary") ELSE body.outcome
      nextSteps == analysisField(body, "nextSteps")
  IN IF Has(summary) /\ Val(summary) # <<>>
       THEN LET line1 == <<"Call summary: ">> \o Val(summary)
                noteLines == IF Has(nextSteps) /\ Len(Val(nextSteps)) > 0
                               THEN <<line1, <<"Next steps: ">>
                                               \o join(SubSeq(Val(nextSteps), 1,
                                                             IF Len(Val(nextSteps)) < 3
                                                               THEN Len(Val(nextSteps)) ELSE 3),
                                                      <<"; ">>)>>
                               ELSE <<line1>>
            IN addNoteToAccount(w, id, join(noteLines, <<" | ">>), ok, t)
       ELSE w

Budget == <<"b", "u", "d", "g", "e", "t">>

Price == <<"p", "r", "i", "c", "e">>

Cost == <<"c", "o", "s", "t">>

Compliance == <<"c", "o", "m", "p", "l", "i", "a", "n", "c", "e">>

Security == <<"s", "e", "c", "u", "r", "i", "t", "y">>

Legal == <<"l", "e", "g", "a", "l">>

Timeline == <<"t", "i", "m", "e", "l", "i", "n", "e">>

Deadline == <<"d", "e", "a", "d", "l", "i", "n", "e">>

Urgent == <<"u", "r", "g", "e", "n", "t">>

tagsToAddOf(sentimentScore, likelihoodFromCall, painPoints) ==
  LET painText == IF Has(painPoints) /\ Len(Val(painPoints)) > 0
                    THEN Some(toLowerCase(join(Val(painPoints), <<" ">>))) ELSE None
      hit(words) == Has(painText) /\ \E k \in words : includes(Val(painText), k)
  IN (IF Has(sentimentScore) /\ Val(sentimentScore) >= 8 THEN <<"engaged">>
      ELSE IF Has(sentimentScore) /\ Val(sentimentScore) <= 3 THEN <<"at-risk">>
      ELSE <<>>)
     \o (IF Has(likelihoodFromCall) /\ Val(likelihoodFromCall) >= 75
           THEN <<"high-priority">> ELSE <<>>)
     \o (IF hit({Budget, Price, Cost}) THEN <<"budget-concern">> ELSE <<>>)
     \o (IF hit({Compliance, Security, Legal}) THEN <<"compliance-blocker">> ELSE <<>>)
     \o (IF hit({Timeline, Deadline, Urgent}) THEN <<"urgent-timeline">> ELSE <<>>)

(* a tag step that never removes a tag *)
tagsToRemoveNothing(sentimentScore) == <<>>

tagsToRemoveOf(sentimentScore) ==
  IF Has(sentimentScore) /\ Val(sentimentScore) >= 8 THEN <<"at-risk">>
  ELSE IF Has(sentimentScore) /\ Val(sentimentScore) <= 3 THEN <<"engaged">>
  ELSE <<>>

RECURSIVE addTagsPush(_, _)
(* tag addition without the includes test *)
addTagsPush(tags, toAdd) ==
  IF toAdd = <<>> THEN tags ELSE addTagsPush(Append(tags, Head(toAdd)), Tail(toAdd))

RECURSIVE addTags(_, _)
(* for (const tag of tagsToAdd) if (!acct.tags.includes(tag)) acct.tags.push(tag) *)
addTags(tags, toAdd) ==
  IF toAdd = <<>> THEN tags
  ELSE addTags(IF arrayIncludes(tags, Head(toAdd)) THEN tags ELSE Append(tags, Head(toAdd)),
               Tail(toAdd))

RECURSIVE removeTags(_, _)
(* for (const tag of tagsToRemove) { idx = indexOf(tag); if (idx >= 0) splice(idx, 1) } *)
removeTags(tags, toRemove) ==
  IF toRemove = <<>> THEN tags
  ELSE removeTags(IF indexOf(tags, Head(toRemove)) >= 1
                    THEN splice1(tags, indexOf(tags, Head(toRemove))) ELSE tags,
                  Tail(toRemove))

(* 4. tag update; written to the account in memory, not persisted here *)
Step4(w, id, sentimentScore, likelihoodFromCall, painPoints) ==
  LET i == FindIndex(w.store.accounts, id)
  IN [w EXCEPT !.store.accounts[i].tags =
        removeTags(addTags(@, tagsToAddOf(sentimentScore, likelihoodFromCall, painPoints)),
                   tagsToRemoveOf(sentimentScore))]

(* 5. follow-up scheduling *)
Step5(w, id, sentimentScore, nextSteps, t) ==
  LET i == FindIndex(w.store.accounts, id)
      followUpDays == IF Has(sentimentScore) /\ Val(sentimentScore) >= 7 THEN 2 ELSE 5
  IN IF Has(nextSteps) /\ Len(Val(nextSteps)) > 0
       THEN [w EXCEPT !.store.accounts[i].nextFollowUp = Some(t + followUpDays)]
       ELSE w

(* a final check that reads the likelihood threshold as 20 *)
Step6Below20(w, id, ok, t) ==
  LET refreshedAcct == getAccount(w, id)
  IN IF Has(refreshedAcct) /\ Val(refreshedAcct).likelihood < 20
        /\ ~arrayIncludes(Val(refreshedAcct).tags, "at-risk")
       THEN flagAccountRisk(w, id, <<"Likelihood dropped">>, ok, t)
       ELSE w

(* a final check that does not look at the tags *)
Step6AnyTags(w, id, ok, t) ==
  LET refreshedAcct == getAccount(w, id)
  IN IF Has(refreshedAcct) /\ Val(refreshedAcct).likelihood < 30
       THEN flagAccountRisk(w, id,
              <<"Likelihood dropped to ", ToString(Val(refreshedAcct).likelihood),
                "% after call">>, ok, t)
       ELSE w

(* 6. final risk check on the re-read account *)
Step6(w, id, ok, t) ==
  LET refreshedAcct == getAccount(w, id)
  IN IF Has(refreshedAcct) /\ Val(refreshedAcct).likelihood < 30
        /\ ~arrayIncludes(Val(refreshedAcct).tags, "at-risk")
       THEN flagAccountRisk(w, id,
              <<"Likelihood dropped to ", ToString(Val(refreshedAcct).likelihood),
                "% after call">>, ok, t)
       ELSE w

CallCompleted == <<"Call completed">>

(* a guard that treats only closed_lost as terminal *)
engineAppliesLostOnly(acct) == Has(acct) /\ Val(acct).stage # "closed_lost"

(* acct && acct.stage !== "closed_won" && acct.stage !== "closed_lost" *)
engineApplies(acct) ==
  Has(acct) /\ Val(acct).stage # "closed_won" /\ Val(acct).stage # "closed_lost"

addCall(w, body, ok, t) ==
  LET record == [accountId |-> body.accountId, date |-> OrElse(body.date, t),
                 duration |-> OrElse(body.duration, 0),
                 transcript |-> OrElse(body.transcript, <<>>),
                 sentiment |-> body.sentiment,
                 outcome |-> OrElse(body.outcome, CallCompleted)]
      w0 == addCallRecord(w, body.accountId, record, ok)
      acct == getAccount(w0, body.accountId)
      sentimentScore == sentimentScoreOf(body)
      likelihoodFromCall == likelihoodFromCallOf(body)
  IN IF engineApplies(acct)
       THEN LET id == Val(acct).id
                w1 == Step1(w0, id, likelihoodFromCall, ok)
                w2 == Step2(w1, id, sentimentScore, body.outcome, ok, t)
                w3 == Step3(w2, id, body, ok, t)
                w4 == Step4(w3, id, sentimentScore, likelihoodFromCall,
                            analysisField(body, "painPoints"))
                w5 == Step5(w4, id, sentimentScore, analysisField(body, "nextSteps"), t)
                w6 == Step6(w5, id, ok, t)
            IN [w |-> persistFromRoute(w6, ok), status |-> 200, target |-> Some(id),
                engine |-> TRUE, tagsIn |-> acctOf(w3, id).tags,
                tagsOut |-> acctOf(w4, id).tags]
       ELSE [w |-> w0, status |-> 200,
             target |-> IF Has(acct) THEN Some(Val(acct).id) ELSE None,
             engine |-> FALSE, tagsIn |-> <<>>, tagsOut |-> <<>>]

(***************************************************************************)
(* State.  store and counter are the module variables of lib/store, file   *)
(* is the snapshot /tmp/pilotcrm-data.json, diskOk is whether a write to   *)
(* it succeeds, now is the current day.  nreq counts the requests served;  *)
(* last records the last request: its body, the store before it, the       *)
(* account it resolved, the response status, whether the disk accepted    *)
(* writes during it and the card it was sent from.  ui is the card the    *)
(* copilot's chat shows for a moveAccountToStage call, or the call modal.  *)
(* suspended holds the handlers that wait at an await, apiKey is whether   *)
(* the process has an ANTHROPIC_API_KEY.                                   *)
(***************************************************************************)
CounterStart == 100

World == [store |-> store, counter |-> counter, file |-> file]

NoBody == [none |-> TRUE]

(* the copilot's chat shows no card *)
NoCard == [kind |-> "none"]

Record(action, body, r) ==
  [action |-> action, body |-> body, status |-> r.status, target |-> r.target, pre |-> store,
   ok |-> diskOk, card |-> ui,
   reply |-> IF action = "updateLikelihood" /\ r.status = 200
               THEN [old |-> r.old, now |-> r.now] ELSE NoBody,
   engine |-> IF action = "addCall" THEN r.engine ELSE FALSE,
   tagsIn |-> IF action = "addCall" THEN r.tagsIn ELSE <<>>,
   tagsOut |-> IF action = "addCall" THEN r.tagsOut ELSE <<>>]

Apply(action, body, r) ==
  /\ store' = r.w.store
  /\ counter' = r.w.counter
  /\ file' = r.w.file
  /\ nreq' = nreq + 1
  /\ last' = Record(action, body, r)
  /\ UNCHANGED <<diskOk, now>>

Serve(action, body, r) ==
  nreq < MaxRequests /\ Apply(action, body, r) /\ UNCHANGED <<ui, suspended, apiKey>>

InitFiles == {NoFile, Some([accounts |-> << [SEED_ACCOUNTS[1] EXCEPT !.stage = "undefined"],
      [SEED_ACCOUNTS[2] EXCEPT !.stage = "closed_won", !.likelihood = 100] >>,
      callRecords |-> SubSeq(SEED_CALL_RECORDS, 1, 1), activities |-> << SEED_ACTIVITIES[1],
      [id |-> 50, accountId |-> 1, type |-> "stage_change", message |-> <<"Stage changed from ",
      "Negotiation", " ", "->", " ", "undefined">>, timestamp |-> -1] >>]),
      Some([accounts |-> <<>>, callRecords |-> <<>>, activities |-> <<>>])}

Init ==
  /\ file \in InitFiles
  /\ store = loadStore(file)
  /\ counter = CounterStart
  /\ diskOk = TRUE
  /\ now = 0
  /\ nreq = 0
  /\ last = [action |-> "init", body |-> NoBody, status |-> 0, target |-> None, pre |-> store,
             ok |-> diskOk, card |-> NoCard,
             engine |-> FALSE, tagsIn |-> <<>>, tagsOut |-> <<>>]
  /\ ui = NoCard
  /\ suspended = <<>>
  /\ apiKey = FALSE

(***************************************************************************)
(* Request inputs.                                                         *)
(***************************************************************************)
Nova == <<"n", "o", "v", "a">>

ClosedWonSpaced == <<"C", "l", "o", "s", "e", "d", " ", "W", "o", "n">>

ProposalUpper == <<"P", "R", "O", "P", "O", "S", "A", "L">>

Bogus == <<"b", "o", "g", "u", "s">>

Acme == <<"A", "c", "m", "e">>

BudgetTooHigh == <<"B", "u", "d", "g", "e", "t", " ", "t", "o", "o", " ", "h", "i", "g", "h">>

UpdateLikelihoodBodies ==
  {[companyName |-> Some(Nova), likelihood |-> l] : l \in {-5, 20, 120}}

Analysis(s, l, p, n, m) ==
  [overallSentiment |-> s, likelihoodToClose |-> l, painPoints |-> p, nextSteps |-> n,
   summary |-> m]

CallBody(id, an, sent, out) ==
  [accountId |-> id, date |-> None, duration |-> Some(90), transcript |-> None,
   sentiment |-> sent, outcome |-> out, analysis |-> an]

AddCallBodies ==
  {CallBody(id, an, None, None) :
     id \in {1, 2, CounterStart + 1},
     an \in {None,
             Some(Analysis(Some(2), Some(10), Some(<<BudgetTooHigh>>),
                           Some(<< <<"Send pricing">> >>), None)),
             Some(Analysis(Some(9), Some(80), None, None, Some(<<"Great call">>)))}}

(***************************************************************************)
(* Actions: one per request handled by POST /api/crm, plus the process     *)
(* restart, the clock and the disk.                                        *)
(***************************************************************************)
MoveStageReq ==
  \E body \in {[accountId |-> a, companyName |-> Some(Nova), stage |-> s] : a \in {None,
        Some(1)}, s \in {None, Some(ClosedWonSpaced), Some(ProposalUpper),
        Some(Bogus)}} : Serve("moveStage", body, moveStage(World, body, diskOk, now))

UpdateLikelihoodReq ==
  \E body \in UpdateLikelihoodBodies :
    Serve("updateLikelihood", body, updateLikelihood(World, body, diskOk))

FlagRiskReq ==
  \E body \in {[companyName |-> Some(Nova),
        reason |-> <<"Champion left the company">>]} : Serve("flagRisk", body, flagRisk(World,
        body, diskOk, now))

AddNoteReq ==
  \E body \in {[companyName |-> Some(Nova),
        note |-> <<"Sent the proposal">>]} : Serve("addNote", body, addNote(World, body, diskOk,
        now))

CreateAccountReq ==
  \E body \in {[company |-> Some(Acme), contactName |-> None, dealValue |-> None, notes |-> None]} :
    Serve("createAccount", body, createAccountReq(World, body, diskOk, now))

AddCallReq ==
  \E body \in AddCallBodies : Serve("addCall", body, addCall(World, body, diskOk, now))

(* a new process loads the store from the snapshot; a restart that finds   *)
(* the store it had is not a step                                          *)
Restart ==
  /\ loadStore(file) # store
  /\ store' = loadStore(file)
  /\ last' = [action |-> "restart", body |-> NoBody, status |-> 0, target |-> None,
              pre |-> store, ok |-> diskOk,
              card |-> ui, engine |-> FALSE, tagsIn |-> <<>>, tagsOut |-> <<>>]
  /\ UNCHANGED <<counter, file, diskOk, now, nreq, ui, suspended, apiKey>>

Tick ==
  /\ now < MaxNow
  /\ now' = now + 1
  /\ UNCHANGED <<store, counter, file, diskOk, nreq, last, ui, suspended, apiKey>>

DiskChange ==
  /\ diskOk' = ~diskOk
  /\ UNCHANGED <<store, counter, file, now, nreq, last, ui, suspended, apiKey>>

Next ==
  \/ MoveStageReq
  \/ UpdateLikelihoodReq
  \/ FlagRiskReq
  \/ AddNoteReq
  \/ CreateAccountReq
  \/ AddCallReq
  \/ Restart
  \/ Tick
  \/ DiskChange

Spec == Init /\ [][Next]_vars

(***************************************************************************)
(* The rule engine on its own: one addCall request against a store that    *)
(* holds one account, for every sampled account and every sampled request. *)
(***************************************************************************)
AccountSamples ==
  {[id |-> 1, company |-> MeridianHealth, contactName |-> SarahChen, stage |-> st,
    dealValue |-> 240, likelihood |-> lk,
    notes |-> <<>>, lastContactDate |-> -1, nextFollowUp |-> Some(5), tags |-> tg] :
     st \in StageSet, lk \in {1, 25, 50, 60, 100}, tg \in {<<>>, <<"inbound">>, <<"at-risk",
           "enterprise">>, <<"engaged", "budget-concern">>}}

RuleEngineBodies ==
  {CallBody(1, an, so[1], so[2]) :
     an \in {None} \cup {Some(Analysis(s, l, p, n, None)) :
                            s \in {None, Some(2), Some(3), Some(4), Some(7), Some(8), Some(9)},
                                  l \in {None, Some(-20), Some(6), Some(40), Some(74), Some(75),
                                  Some(80), Some(130)},
                            p \in {None, Some(<<BudgetTooHigh>>), Some(<<<<"L", "e", "g", "a",
                                  "l", " ", "r", "e", "v", "i", "e", "w">>, Urgent>>)},
                                  n \in {None, Some(<< <<"Send pricing">> >>)}},
     so \in {<<None, None>>, <<None, Some(<<"Left voicemail">>)>>,
             <<Some([score |-> Some(2)]), Some(<<"Customer upset">>)>>}}

InitCall ==
  /\ \E a \in AccountSamples :
       store = [accounts |-> <<a>>, callRecords |-> <<>>, activities |-> <<>>]
  /\ file = Some(stringify(store))
  /\ counter = CounterStart
  /\ diskOk = TRUE
  /\ now = 1
  /\ nreq = 0
  /\ last = [action |-> "init", body |-> NoBody, status |-> 0, target |-> None, pre |-> store,
             ok |-> diskOk, card |-> NoCard,
             engine |-> FALSE, tagsIn |-> <<>>, tagsOut |-> <<>>]
  /\ ui = NoCard
  /\ suspended = <<>>
  /\ apiKey = FALSE

RuleEngineCall ==
  /\ nreq = 0
  /\ \E body \in RuleEngineBodies : Apply("addCall", body, addCall(World, body, diskOk, now))
  /\ UNCHANGED <<ui, suspended, apiKey>>

NextCall == RuleEngineCall

SpecCall == InitCall /\ [][NextCall]_vars

(***************************************************************************)
(* Requests whose reference to an account is missing, empty or unknown,    *)
(* requests repeated on one account, and a note that quotes a stage arrow. *)
(***************************************************************************)
Zenith == <<"z", "e", "n", "i", "t", "h">>

AbsentId == CounterStart - 1

MoveStageEdge ==
  \E body \in {[accountId |-> Some(AbsentId), companyName |-> None,
        stage |-> Some(ProposalUpper)], [accountId |-> None, companyName |-> None,
        stage |-> Some(ClosedWonSpaced)], [accountId |-> None, companyName |-> Some(Zenith),
        stage |-> Some(ProposalUpper)]} :
    Serve("moveStage", body, moveStage(World, body, diskOk, now))

UpdateLikelihoodEdge ==
  \E body \in {[companyName |-> Some(<<>>), likelihood |-> 20], [companyName |-> Some(Zenith),
        likelihood |-> 20]} :
    Serve("updateLikelihood", body, updateLikelihood(World, body, diskOk))

FlagRiskEdge ==
  \E body \in {[companyName |-> Some(Nova), reason |-> <<"Champion left the company">>],
        [companyName |-> Some(Nova), reason |-> <<"Budget frozen">>], [companyName |-> None,
        reason |-> <<"Budget frozen">>]} : Serve("flagRisk", body, flagRisk(World, body, diskOk,
        now))

AddNoteEdge ==
  \E body \in {[companyName |-> None, note |-> <<"Sent the proposal">>],
        [companyName |-> Some(Zenith), note |-> <<"Sent the proposal">>],
        [companyName |-> Some(Nova), note |-> <<"Export shows owner ", "->", " ", "undefined",
        " for this deal">>], [companyName |-> Some(Nova),
        note |-> Undefined]} : Serve("addNote", body, addNote(World, body, diskOk, now))

AddCallEdge ==
  \E body \in {CallBody(AbsentId, None, None, None)} : Serve("addCall", body, addCall(World,
        body, diskOk, now))

NextEdge ==
  \/ MoveStageEdge
  \/ UpdateLikelihoodEdge
  \/ FlagRiskEdge
  \/ AddNoteEdge
  \/ AddCallEdge
  \/ Restart
  \/ DiskChange

SpecEdge == Init /\ [][NextEdge]_vars

(***************************************************************************)
(* The copilot action moveAccountToStage of the page: renderAndWait shows  *)
(* an error card, an approval card or a card that moves the account by     *)
(* itself; the page's accounts are the ones its last refresh fetched.      *)
(***************************************************************************)
ClosedWonExact == StageChars("closed_won")

(* accounts.find(a => a.company.toLowerCase() === name || ...includes(name)) *)
findByName(accts, name) ==
  LET hits == {i \in 1..Len(accts) : includes(toLowerCase(accts[i].company), toLowerCase(name))}
  IN IF hits = {} THEN None ELSE Some(accts[CHOOSE i \in hits : \A j \in hits : i <= j])

renderAndWait(accts, args) ==
  LET acct == findByName(accts, args.companyName)
  IN IF ~Has(acct) THEN [kind |-> "error"]
     ELSE IF args.newStage = ClosedWonExact
       THEN [kind |-> "approval", accountId |-> Val(acct).id, stage |-> ClosedWonExact]
     ELSE [kind |-> "auto", accountId |-> Val(acct).id, stage |-> args.newStage]

(* mutate("moveStage", {accountId, stage}) from the card on screen *)
mutateMoveStage ==
  LET body == [accountId |-> Some(ui.accountId), companyName |-> None, stage |-> Some(ui.stage)]
  IN /\ nreq < MaxRequests
     /\ Apply("moveStage", body, moveStage(World, body, diskOk, now))
     /\ ui' = NoCard
     /\ UNCHANGED <<suspended, apiKey>>

CopilotMoveAccountToStage ==
  /\ ui = NoCard
  /\ \E args \in {[companyName |-> c, newStage |-> s] : c \in {Nova, Zenith},
        s \in {ClosedWonExact, ClosedWonSpaced,
        ProposalUpper}} : ui' = renderAndWait(store.accounts, args)
  /\ UNCHANGED <<store, counter, file, diskOk, now, nreq, last, suspended, apiKey>>

(* the effect of AutoMoveCard runs once, without any click *)
AutoMoveEffect == ui.kind = "auto" /\ mutateMoveStage

Approve == ui.kind = "approval" /\ mutateMoveStage

Decline ==
  /\ ui.kind = "approval"
  /\ ui' = NoCard
  /\ last' = [action |-> "decline", body |-> NoBody, status |-> 0, target |-> Some(ui.accountId),
              pre |-> store, ok |-> diskOk, card |-> ui,
              engine |-> FALSE, tagsIn |-> <<>>, tagsOut |-> <<>>]
  /\ UNCHANGED <<store, counter, file, diskOk, now, nreq, suspended, apiKey>>

Dismiss ==
  /\ ui.kind = "error"
  /\ ui' = NoCard
  /\ last' = [action |-> "dismiss", body |-> NoBody, status |-> 0, target |-> None,
              pre |-> store, ok |-> diskOk, card |-> ui,
              engine |-> FALSE, tagsIn |-> <<>>, tagsOut |-> <<>>]
  /\ UNCHANGED <<store, counter, file, diskOk, now, nreq, suspended, apiKey>>

NextApproval ==
  \/ CopilotMoveAccountToStage
  \/ AutoMoveEffect
  \/ Approve
  \/ Decline
  \/ Dismiss

SpecApproval == Init /\ [][NextApproval]_vars

(***************************************************************************)
(* GET /api/crm: the pipeline statistics of lib/store, for every sampled   *)
(* list of accounts.  dealValue is held in thousands of dollars, so        *)
(* averageDealSize (dollars) rounds DealUnit times the mean, and           *)
(* weightedPipelineValue is held in hundredths of a thousand (the sum of   *)
(* dealValue * likelihood, before the division by 100).                    *)
(***************************************************************************)
MaxAccounts == 3

SeqSet(q) == {q[i] : i \in 1..Len(q)}

DealUnit == 1000

(* Math.round(n / d) for n >= 0 and d > 0 *)
roundDiv(n, d) == (2 * n + d) \div (2 * d)

RECURSIVE sum(_)
sum(q) == IF q = <<>> THEN 0 ELSE q[1] + sum(Tail(q))

dealValues(accts) == [i \in 1..Len(accts) |-> accts[i].dealValue]

inStage(accts, s) == LET isIn(a) == a.stage = s IN SelectSeq(accts, isIn)

(* a count that leaves lost deals out *)
countByStageOpen(accts) ==
  [s \in SeqSet(VALID_STAGES) |-> IF s = "closed_lost" THEN 0 ELSE Len(inStage(accts, s))]

countByStage(accts) == [s \in SeqSet(VALID_STAGES) |-> Len(inStage(accts, s))]

valueByStage(accts) == [s \in SeqSet(VALID_STAGES) |-> sum(dealValues(inStage(accts, s)))]

getPipelineStats(w) ==
  LET accts == w.store.accounts
      notLost(a) == a.stage # "closed_lost"
      notWon(a) == a.stage # "closed_won"
      active == SelectSeq(accts, notLost)
      totalValue == sum(dealValues(active))
  IN [totalPipelineValue |-> totalValue,
      weightedPipelineValue |->
        sum([i \in 1..Len(active) |-> active[i].dealValue * active[i].likelihood]),
      averageDealSize |->
        IF Len(active) # 0 THEN roundDiv(DealUnit * totalValue, Len(active)) ELSE 0,
      averageLikelihood |->
        IF Len(active) # 0
          THEN roundDiv(sum([i \in 1..Len(active) |-> active[i].likelihood]), Len(active))
          ELSE 0,
      totalAccounts |-> Len(accts),
      activeDeals |-> Len(SelectSeq(active, notWon)),
      countByStage |-> countByStage(accts),
      valueByStage |-> valueByStage(accts)]

StatStore(n, st, dl) ==
  [accounts |-> [i \in 1..n |-> [SEED_ACCOUNTS[1] EXCEPT !.id = i, !.stage = st[i],
                                                         !.dealValue = dl[i][1],
                                                         !.likelihood = dl[i][2]]],
   callRecords |-> <<>>, activities |-> <<>>]

InitStats ==
  /\ \E n \in 1..MaxAccounts :
       \E st \in [1..n -> StageSet], dl \in [1..n -> {<<24, 85>>, <<96,
             50>>}] : store = StatStore(n, st, dl)
  /\ file = Some(stringify(store))
  /\ counter = CounterStart
  /\ diskOk = TRUE
  /\ now = 0
  /\ nreq = 0
  /\ last = [action |-> "init", body |-> NoBody, status |-> 0, target |-> None, pre |-> store,
             ok |-> diskOk, card |-> NoCard,
             engine |-> FALSE, tagsIn |-> <<>>, tagsOut |-> <<>>]
  /\ ui = NoCard
  /\ suspended = <<>>
  /\ apiKey = FALSE

(* GET /api/crm: the response carries the statistics *)
GetStats ==
  /\ last.action = "init"
  /\ last' = [action |-> "getStats", body |-> NoBody, status |-> 200, target |-> None,
              pre |-> store, ok |-> diskOk, card |-> ui,
              engine |-> FALSE, tagsIn |-> <<>>, tagsOut |-> <<>>,
              stats |-> getPipelineStats(World)]
  /\ UNCHANGED <<store, counter, file, diskOk, now, nreq, ui, suspended, apiKey>>

NextStats == GetStats

SpecStats == InitStats /\ [][NextStats]_vars

(***************************************************************************)
(* The call modal of the page (components/CallModal): after the call ends  *)
(* an effect asks /api/analyze-sentiment for the analysis of the           *)
(* transcript; Save hands the record to the page, which posts addCall.     *)
(* React runs the effect again whenever one of its dependencies changed:   *)
(* pending says that a run is due.                                         *)
(***************************************************************************)
MaxAnalyses == 3

InitModal ==
  /\ file \in InitFiles
  /\ store = loadStore(file)
  /\ counter = CounterStart
  /\ diskOk = TRUE
  /\ now = 0
  /\ nreq = 0
  /\ last = [action |-> "init", body |-> NoBody, status |-> 0, target |-> None, pre |-> store,
             ok |-> diskOk, card |-> NoCard,
             engine |-> FALSE, tagsIn |-> <<>>, tagsOut |-> <<>>]
  /\ \E id \in {1, 2}, tr \in {<<>>, <<"Hello, this is Alex">>} :
       ui = [kind |-> "modal", callState |-> "active", accountId |-> id, transcript |-> tr,
             analyzing |-> FALSE, sentiment |-> None, inflight |-> FALSE, pending |-> FALSE,
             requests |-> 0]
  /\ suspended = <<>>
  /\ apiKey = FALSE

(* endCall / the call-end event: setCallState("post-call") *)
EndCall ==
  /\ ui.kind = "modal"
  /\ ui.callState = "active"
  /\ ui' = [ui EXCEPT !.callState = "post-call", !.pending = TRUE]
  /\ UNCHANGED <<store, counter, file, diskOk, now, nreq, last, suspended, apiKey>>

(* one run of the effect *)
AnalyzeEffect ==
  /\ ui.kind = "modal"
  /\ ui.pending
  /\ IF ui.callState # "post-call" \/ Has(ui.sentiment) \/ ui.analyzing
       THEN ui' = [ui EXCEPT !.pending = FALSE]
       ELSE IF Len(ui.transcript) = 0
         THEN ui' = [ui EXCEPT !.pending = FALSE]
         ELSE /\ ui.requests < MaxAnalyses
              /\ ui' = [ui EXCEPT !.analyzing = TRUE, !.inflight = TRUE,
                                  !.requests = @ + 1, !.pending = TRUE]
  /\ UNCHANGED <<store, counter, file, diskOk, now, nreq, last, suspended, apiKey>>

(* .then(data => { setSentiment(data); setAnalyzing(false) }) *)
AnalysisArrives ==
  /\ ui.kind = "modal"
  /\ ui.inflight
  /\ \E data \in {[overallSentiment |-> 2, likelihoodToClose |-> 10,
        painPoints |-> <<BudgetTooHigh>>, nextSteps |-> << <<"Send pricing">> >>,
        summary |-> <<"Customer upset">>], [overallSentiment |-> 9, likelihoodToClose |-> 80,
        painPoints |-> <<>>, nextSteps |-> <<>>, summary |-> <<"Great call">>]} :
       ui' = [ui EXCEPT !.sentiment = Some(data), !.analyzing = FALSE, !.inflight = FALSE,
                        !.pending = TRUE]
  /\ UNCHANGED <<store, counter, file, diskOk, now, nreq, last, suspended, apiKey>>

(* .catch(() => setAnalyzing(false)): the request or the parsing of its    *)
(* response failed                                                         *)
AnalysisFails ==
  /\ ui.kind = "modal"
  /\ ui.inflight
  /\ ui' = [ui EXCEPT !.analyzing = FALSE, !.inflight = FALSE, !.pending = TRUE]
  /\ UNCHANGED <<store, counter, file, diskOk, now, nreq, last, suspended, apiKey>>

(* the record handleSave builds and handleCallComplete posts *)
savedCallBody ==
  LET s == ui.sentiment
  IN [accountId |-> ui.accountId, date |-> Some(now), duration |-> Some(90),
      transcript |-> Some(ui.transcript),
      sentiment |-> IF Has(s) THEN Some([score |-> Some(Val(s).overallSentiment)]) ELSE None,
      outcome |-> Some(IF Has(s) THEN Val(s).summary ELSE CallCompleted),
      analysis |-> IF Has(s)
                     THEN Some(Analysis(Some(Val(s).overallSentiment),
                                        Some(Val(s).likelihoodToClose),
                                        Some(Val(s).painPoints), Some(Val(s).nextSteps), None))
                     ELSE None]

SaveCall ==
  /\ ui.kind = "modal"
  /\ ui.callState = "post-call"
  /\ nreq < MaxRequests
  /\ Apply("addCall", savedCallBody, addCall(World, savedCallBody, diskOk, now))
  /\ ui' = NoCard
  /\ UNCHANGED <<suspended, apiKey>>

NextModal ==
  \/ EndCall
  \/ AnalyzeEffect
  \/ AnalysisArrives
  \/ AnalysisFails
  \/ SaveCall

SpecModal == InitModal /\ [][NextModal]_vars

(***************************************************************************)
(* POST /api/vapi: the voice provider's webhook.  An end-of-call report    *)
(* whose caller matches no account waits, when the process has an API key, *)
(* for the lead extraction; other requests are served while it waits.      *)
(***************************************************************************)
UnknownCompany ==
  <<"U", "n", "k", "n", "o", "w", "n", " ", "C", "o", "m", "p", "a", "n", "y">>

UnknownCaller ==
  <<"U", "n", "k", "n", "o", "w", "n", " ", "C", "a", "l", "l", "e", "r">>

(* the loop's test without the lower-casing *)
matchesExact(account, transcript) ==
  includes(transcript, account.company) \/ includes(transcript, account.contactName)

matches(account, transcript) ==
  LET lower == toLowerCase(transcript)
  IN \/ includes(lower, toLowerCase(account.company))
     \/ includes(lower, toLowerCase(account.contactName))

(* the index of the account the loop breaks at, 0 when it runs to the end *)
matchedExisting(accts, transcript) ==
  IF \E i \in 1..Len(accts) : matches(accts[i], transcript)
    THEN CHOOSE i \in 1..Len(accts) :
           matches(accts[i], transcript) /\ \A j \in 1..(i - 1) : ~matches(accts[j], transcript)
    ELSE 0

(* the handler's locals transcript, summary, durationSeconds *)
reportOf(message) ==
  [transcript |-> OrElse(message.transcript, <<>>),
   summary |-> OrElse(message.summary, <<"Inbound call completed">>),
   durationSeconds |-> OrElse(message.duration, 0)]

inboundCall(accountId, report, t) ==
  [accountId |-> accountId, date |-> t, duration |-> report.durationSeconds,
   transcript |-> report.transcript, sentiment |-> None, outcome |-> report.summary]

ExtractionFailed == [failed |-> TRUE]

(* leadInfo: the defaults, replaced by the parsed answer when there is one *)
leadInfoOf(report, answer) ==
  IF answer = ExtractionFailed
    THEN [company |-> UnknownCompany, contactName |-> UnknownCaller, dealValue |-> 24,
          notes |-> <<report.summary>>]
    ELSE [company |-> OrElse(answer.company, UnknownCompany),
          contactName |-> OrElse(answer.contactName, UnknownCaller),
          dealValue |-> OrElse(answer.dealValue, 24),
          notes |-> answer.notes]

(* createAccount(leadInfo), then the call logged against the new account *)
createLead(w, leadInfo, report, ok, t) ==
  LET w1 == createAccount(w, leadInfo, ok, t)
  IN addCallRecord(w1, uid(w), inboundCall(uid(w), report, t), ok)

(* handleEndOfCallReport up to its return or to the await of the extraction *)
handleEndOfCallReport(w, message, key, ok, t) ==
  LET report == reportOf(message)
      i == matchedExisting(w.store.accounts, report.transcript)
  IN IF Len(report.transcript) < 20 THEN [w |-> w, phase |-> "skipped", waiting |-> <<>>]
     ELSE IF i > 0
       THEN [w |-> addCallRecord(w, w.store.accounts[i].id,
                                 inboundCall(w.store.accounts[i].id, report, t), ok),
             phase |-> "matched", waiting |-> <<>>]
     ELSE IF key THEN [w |-> w, phase |-> "extracting", waiting |-> <<message>>]
     ELSE [w |-> createLead(w, leadInfoOf(report, ExtractionFailed), report, ok, t),
           phase |-> "created", waiting |-> <<>>]

POSTvapi(w, message, key, ok, t) ==
  IF message.type = "end-of-call-report" THEN handleEndOfCallReport(w, message, key, ok, t)
  ELSE [w |-> w, phase |-> "skipped", waiting |-> <<>>]

TranscriptBoth ==
  <<"m", "a", "r", "c", "u", "s", " ", "r", "i", "v", "e", "r", "a", " ", "s", "e", "n", "t",
    " ", "m", "e", ",", " ", "m", "e", "r", "i", "d", "i", "a", "n", " ", "h", "e", "a", "l",
    "t", "h", " ", "h", "e", "r", "e">>

TranscriptAcme ==
  <<"H", "e", "l", "l", "o", ",", " ", "I", " ", "a", "m", " ", "D", "a", "n", "a", " ", "f",
    "r", "o", "m", " ", "A", "c", "m", "e", ",", " ", "w", "e", " ", "n", "e", "e", "d", " ",
    "t", "o", "o", "l", "s">>

VapiMessage(type, transcript) ==
  [type |-> type, transcript |-> transcript, summary |-> None, duration |-> Some(95)]

VapiRecord(message, phase) ==
  [action |-> "vapi", body |-> message, status |-> 200, target |-> None, pre |-> store,
   ok |-> diskOk, card |-> ui, reply |-> NoBody, engine |-> FALSE, tagsIn |-> <<>>,
   tagsOut |-> <<>>, phase |-> phase]

InitVapi ==
  /\ file \in InitFiles
  /\ store = loadStore(file)
  /\ counter = CounterStart
  /\ diskOk = TRUE
  /\ now = 0
  /\ nreq = 0
  /\ last = [action |-> "init", body |-> NoBody, status |-> 0, target |-> None, pre |-> store,
             ok |-> diskOk, card |-> NoCard,
             engine |-> FALSE, tagsIn |-> <<>>, tagsOut |-> <<>>]
  /\ ui = NoCard
  /\ suspended = <<>>
  /\ apiKey \in BOOLEAN

(* a webhook request arrives and runs to its return or to the await *)
VapiEvent ==
  /\ nreq < MaxRequests
  /\ \E message \in
         {VapiMessage("assistant-request", None),
          VapiMessage("status-update", Some(TranscriptAcme)),
          VapiMessage("end-of-call-report", None),
          VapiMessage("end-of-call-report",
                      Some(<<"H", "i", ",", " ", "w", "r", "o", "n", "g", " ", "n", "u", "m",
                             "b", "e", "r", ".">>)),
          VapiMessage("end-of-call-report", Some(TranscriptBoth)),
          VapiMessage("end-of-call-report", Some(TranscriptAcme)),
          [type |-> "end-of-call-report", transcript |-> Some(TranscriptAcme),
           summary |-> Some(<<"Asked for a demo">>), duration |-> None]} :
       LET r == POSTvapi(World, message, apiKey, diskOk, now)
       IN /\ store' = r.w.store
          /\ counter' = r.w.counter
          /\ file' = r.w.file
          /\ suspended' = suspended \o r.waiting
          /\ last' = VapiRecord(message, r.phase)
  /\ nreq' = nreq + 1
  /\ UNCHANGED <<diskOk, now, ui, apiKey>>

(* the extraction of one waiting handler settles and the handler finishes *)
ExtractionReturns ==
  /\ \E k \in 1..Len(suspended),
        answer \in {ExtractionFailed,
                    [company |-> Some(Acme),
                     contactName |-> Some(<<"D", "a", "n", "a", " ", "L", "e", "e">>),
                     dealValue |-> Some(96), notes |-> << <<"Needs: developer tools">> >>],
                    [company |-> None, contactName |-> None, dealValue |-> None,
                     notes |-> <<>>]} :
       LET report == reportOf(suspended[k])
           w == createLead(World, leadInfoOf(report, answer), report, diskOk, now)
       IN /\ store' = w.store
          /\ counter' = w.counter
          /\ file' = w.file
          /\ suspended' = splice1(suspended, k)
          /\ last' = VapiRecord(suspended[k], "resumed")
  /\ UNCHANGED <<diskOk, now, nreq, ui, apiKey>>

NextVapi ==
  \/ VapiEvent
  \/ ExtractionReturns
  \/ DiskChange

SpecVapi == InitVapi /\ [][NextVapi]_vars

(***************************************************************************)
(* The moveAccountToStage action that keeps the account awaiting approval  *)
(* in the page state pendingApproval.  ui is the chat: the cards rendered  *)
(* so far, pendingApproval, and the card whose Approve button was clicked  *)
(* last (0 when the last step was not such a click).                       *)
(***************************************************************************)
MaxCards == 2

(* validStages.find(s => s === rawStage) ?? null *)
validStage(newStage) ==
  LET rawStage == replaceSpaces(toLowerCase(newStage))
  IN IF \E i \in 1..Len(VALID_STAGES) : StageChars(VALID_STAGES[i]) = rawStage
       THEN Some(rawStage) ELSE None

Chat(cards, pending, clicked) ==
  [kind |-> "chat", cards |-> cards, pendingApproval |-> pending, clicked |-> clicked]

InitChat ==
  /\ file \in InitFiles
  /\ store = loadStore(file)
  /\ counter = CounterStart
  /\ diskOk = TRUE
  /\ now = 0
  /\ nreq = 0
  /\ last = [action |-> "init", body |-> NoBody, status |-> 0, target |-> None, pre |-> store,
             ok |-> diskOk, card |-> NoCard,
             engine |-> FALSE, tagsIn |-> <<>>, tagsOut |-> <<>>]
  /\ ui = Chat(<<>>, None, 0)
  /\ suspended = <<>>
  /\ apiKey = FALSE

(* the handler: an error card, an approval card that sets pendingApproval, *)
(* or the move itself                                                      *)
MoveAccountToStageChat ==
  /\ Len(ui.cards) < MaxCards
  /\ \E args \in {[companyName |-> c, newStage |-> s] :
                    c \in {Nova, <<"m", "e", "r", "i", "d", "i", "a", "n">>, Zenith},
                    s \in {ClosedWonSpaced, ProposalUpper, Bogus}} :
       LET stage == validStage(args.newStage)
           acct == findByName(store.accounts, args.companyName)
       IN IF ~Has(stage) \/ ~Has(acct)
            THEN /\ ui' = Chat(Append(ui.cards, [kind |-> "error"]), ui.pendingApproval, 0)
                 /\ last' = [action |-> "error", body |-> args, status |-> 0, target |-> None,
                             pre |-> store, ok |-> diskOk, card |-> ui,
                             engine |-> FALSE, tagsIn |-> <<>>, tagsOut |-> <<>>]
                 /\ UNCHANGED <<store, counter, file, diskOk, now, nreq>>
          ELSE IF Val(stage) = ClosedWonExact
            THEN /\ ui' = Chat(Append(ui.cards, [kind |-> "needsApproval",
                                                  company |-> Val(acct).company]),
                               Some([accountId |-> Val(acct).id, company |-> Val(acct).company]),
                               0)
                 /\ last' = [action |-> "needsApproval", body |-> args, status |-> 0,
                             target |-> Some(Val(acct).id), pre |-> store, ok |-> diskOk,
                             card |-> ui, engine |-> FALSE, tagsIn |-> <<>>, tagsOut |-> <<>>]
                 /\ UNCHANGED <<store, counter, file, diskOk, now, nreq>>
          ELSE LET body == [accountId |-> Some(Val(acct).id), companyName |-> None, stage |-> stage]
               IN /\ nreq < MaxRequests
                  /\ Apply("moveStage", body, moveStage(World, body, diskOk, now))
                  /\ ui' = Chat(Append(ui.cards, [kind |-> "moved",
                                                  company |-> Val(acct).company]),
                                ui.pendingApproval, 0)
  /\ UNCHANGED <<suspended, apiKey>>

(* onClick of Approve & Close on card k *)
ApproveAndClose ==
  /\ \E k \in 1..Len(ui.cards) :
       /\ ui.cards[k].kind = "needsApproval"
       /\ IF Has(ui.pendingApproval)
            THEN LET body == [accountId |-> Some(Val(ui.pendingApproval).accountId),
                              companyName |-> None, stage |-> Some(ClosedWonExact)]
                 IN /\ nreq < MaxRequests
                    /\ Apply("moveStage", body, moveStage(World, body, diskOk, now))
                    /\ ui' = Chat(ui.cards, None, k)
            ELSE /\ ui' = Chat(ui.cards, None, k)
                 /\ last' = [action |-> "approve", body |-> NoBody, status |-> 0,
                             target |-> None, pre |-> store, ok |-> diskOk, card |-> ui,
                             engine |-> FALSE, tagsIn |-> <<>>, tagsOut |-> <<>>]
                 /\ UNCHANGED <<store, counter, file, diskOk, now, nreq>>
  /\ UNCHANGED <<suspended, apiKey>>

(* onClick of Decline on any approval card *)
DeclineChat ==
  /\ \E k \in 1..Len(ui.cards) : ui.cards[k].kind = "needsApproval"
  /\ ui' = Chat(ui.cards, None, 0)
  /\ last' = [action |-> "decline", body |-> NoBody, status |-> 0, target |-> None,
              pre |-> store, ok |-> diskOk, card |-> ui,
              engine |-> FALSE, tagsIn |-> <<>>, tagsOut |-> <<>>]
  /\ UNCHANGED <<store, counter, file, diskOk, now, nreq, suspended, apiKey>>

NextChat ==
  \/ MoveAccountToStageChat
  \/ ApproveAndClose
  \/ DeclineChat

SpecChat == InitChat /\ [][NextChat]_vars

(***************************************************************************)
(* POST /api/crm under concurrent connections.  A request is in flight     *)
(* from its arrival to the end of `await req.json()`; the rest of the      *)
(* handler runs without another await, so the in-flight requests are       *)
(* handled one at a time, in any order.  Each carries the number of its    *)
(* connection; last keeps the requests in flight when it was handled and   *)
(* the record of the request handled before it.                            *)
(***************************************************************************)
Handle(action, body, w, ok, t) ==
  CASE action = "moveStage" -> moveStage(w, body, ok, t)
    [] action = "updateLikelihood" -> updateLikelihood(w, body, ok)
    [] action = "addNote" -> addNote(w, body, ok, t)
    [] action = "flagRisk" -> flagRisk(w, body, ok, t)
    [] action = "createAccount" -> createAccountReq(w, body, ok, t)
    [] action = "addCall" -> addCall(w, body, ok, t)

InitRace ==
  /\ file \in InitFiles
  /\ store = loadStore(file)
  /\ counter = CounterStart
  /\ diskOk = TRUE
  /\ now = 0
  /\ nreq = 0
  /\ last = [action |-> "init", body |-> NoBody, status |-> 0, target |-> None, pre |-> store,
             ok |-> diskOk, card |-> NoCard,
             engine |-> FALSE, tagsIn |-> <<>>, tagsOut |-> <<>>,
             conn |-> 0, inflight |-> <<>>, prev |-> NoBody]
  /\ ui = NoCard
  /\ suspended = <<>>
  /\ apiKey = FALSE

(* a connection is accepted and the handler waits for the body *)
Arrive ==
  /\ nreq + Len(suspended) < MaxRequests
  /\ \E req \in {[action |-> "updateLikelihood", body |-> b] : b \in UpdateLikelihoodBodies}
                 \cup {[action |-> "addCall", body |-> b] :
                         b \in {c \in AddCallBodies : c.accountId \in {1, 2}}} :
       suspended' = Append(suspended, [action |-> req.action, body |-> req.body,
                                       conn |-> nreq + Len(suspended) + 1])
  /\ UNCHANGED <<store, counter, file, diskOk, now, nreq, last, ui, apiKey>>

(* the body of one waiting handler is parsed and the handler runs to its   *)
(* response                                                                *)
Dispatch ==
  /\ \E k \in 1..Len(suspended) :
       LET req == suspended[k]
           r == Handle(req.action, req.body, World, diskOk, now)
       IN /\ store' = r.w.store
          /\ counter' = r.w.counter
          /\ file' = r.w.file
          /\ last' = Record(req.action, req.body, r)
                       @@ [conn |-> req.conn, inflight |-> suspended, prev |-> last]
          /\ suspended' = splice1(suspended, k)
  /\ nreq' = nreq + 1
  /\ UNCHANGED <<diskOk, now, ui, apiKey>>

NextRace ==
  \/ Arrive
  \/ Dispatch

SpecRace == InitRace /\ [][NextRace]_vars

(***************************************************************************)
(* Properties.                                                             *)
(***************************************************************************)
Tags(acct) == {acct.tags[i] : i \in 1..Len(acct.tags)}

NoDup(q) == \A i, j \in 1..Len(q) : q[i] = q[j] => i = j

Served(action) == last.action = action /\ last.status = 200 /\ Has(last.target)

(* the account the last request resolved, before and after the request *)
PreAcct == last.pre.accounts[FindIndex(last.pre.accounts, Val(last.target))]

PostAcct == store.accounts[FindIndex(store.accounts, Val(last.target))]

Targeted == Has(last.target) /\ FindIndex(last.pre.accounts, Val(last.target)) > 0

ReqScore == sentimentScoreOf(last.body)

ReqLtc == likelihoodFromCallOf(last.body)

(* C1: every account's likelihood is in [0,100] in every reachable store   *)
(* state, whatever createAccount, updateLikelihood and addCall requests    *)
(* were served.                                                            *)
C1_LikelihoodInRange ==
  \A i \in 1..Len(store.accounts) :
    store.accounts[i].likelihood >= 0 /\ store.accounts[i].likelihood <= 100

(* an updateLikelihood request with a negative value has been served and   *)
(* the account holds 0 *)
C1_Witness ==
  /\ Served("updateLikelihood")
  /\ last.body.likelihood < 0
  /\ PostAcct.likelihood = 0

(* C2: every account's stage is one of the six stage values in every       *)
(* reachable store state, after loads, moveStage requests with arbitrary   *)
(* stage strings, createAccount and addCall requests.                      *)
C2_StageValid ==
  \A i \in 1..Len(store.accounts) : store.accounts[i].stage \in StageSet

(* the store was loaded from a snapshot holding an invalid stage, and a    *)
(* moveStage request with an unknown stage string has been refused *)
C2_Witness ==
  /\ last.action = "moveStage"
  /\ last.status = 400
  /\ Has(file)
  /\ \E i \in 1..Len(Val(file).accounts) :
       /\ Val(file).accounts[i].stage \notin StageSet
       /\ store.accounts[i].stage = "lead"

(* C3: an addCall request without analysis (and without an embedded        *)
(* sentiment score) leaves the target account's likelihood, stage, tags    *)
(* and nextFollowUp as they were.                                          *)
C3_NoAnalysisNoChange ==
  (/\ Served("addCall")
   /\ Targeted
   /\ ~Has(last.body.analysis)
   /\ ~Has(last.body.sentiment))
  => /\ PostAcct.likelihood = PreAcct.likelihood
     /\ PostAcct.stage = PreAcct.stage
     /\ PostAcct.tags = PreAcct.tags
     /\ PostAcct.nextFollowUp = PreAcct.nextFollowUp

(* C4: an addCall request on an account in closed_won or closed_lost       *)
(* leaves its likelihood, stage, tags, notes and nextFollowUp unchanged,   *)
(* whatever the analysis holds.                                            *)
C4_TerminalUntouched ==
  (/\ Served("addCall")
   /\ Targeted
   /\ PreAcct.stage \in {"closed_won", "closed_lost"})
  => /\ PostAcct.likelihood = PreAcct.likelihood
     /\ PostAcct.stage = PreAcct.stage
     /\ PostAcct.tags = PreAcct.tags
     /\ PostAcct.notes = PreAcct.notes
     /\ PostAcct.nextFollowUp = PreAcct.nextFollowUp

(* a closed_won account has received a call whose analysis would regress,  *)
(* blend, tag and schedule a follow-up on an open account *)
C4_Witness ==
  /\ Served("addCall")
  /\ Targeted
  /\ PreAcct.stage = "closed_won"
  /\ PreAcct.likelihood = 50
  /\ ReqScore = Some(2)
  /\ ReqLtc = Some(6)
  /\ Has(analysisField(last.body, "nextSteps"))
  /\ Len(store.callRecords) = Len(last.pre.callRecords) + 1

(* the integers nearest to n/10: one, or the two neighbours of a tie *)
NearestTenth(n) == {(n + 4) \div 10, (n + 5) \div 10}

StagePos(st) == indexOf(stageOrder, st)

(* C6: in addCall on an account in lead < discovery < proposal <           *)
(* negotiation, sentiment <= 3 moves it to the previous stage unless it is *)
(* lead, sentiment >= 8 to the next stage unless it is negotiation, any    *)
(* other or no sentiment leaves the stage; the stage moves by at most one  *)
(* position.                                                               *)
C6_StageAdjust ==
  (Served("addCall") /\ last.engine)
  => LET pos == StagePos(PreAcct.stage)
         down == Has(ReqScore) /\ Val(ReqScore) <= 3 /\ pos > 1
         up == Has(ReqScore) /\ Val(ReqScore) >= 8 /\ pos < 4
     IN /\ pos \in 1..4
        /\ down => PostAcct.stage = stageOrder[pos - 1]
        /\ up => PostAcct.stage = stageOrder[pos + 1]
        /\ (~down /\ ~up) => PostAcct.stage = PreAcct.stage
        /\ StagePos(PostAcct.stage) - pos \in {-1, 0, 1}

(* sentiment 2 has moved a proposal account back to discovery *)
C6_Witness ==
  /\ Served("addCall")
  /\ last.engine
  /\ PreAcct.stage = "proposal"
  /\ ReqScore = Some(2)
  /\ PostAcct.stage = "discovery"

PainTags == {"budget-concern", "compliance-blocker", "urgent-timeline"}

SentimentTags == {"engaged", "at-risk", "high-priority"}

(* what the sentiment and likelihood rules of the tag step say about the   *)
(* tags before (tin) and after (tout) the step *)
SentimentTagRules(tin, tout) ==
  LET hi == Has(ReqScore) /\ Val(ReqScore) >= 8
      lo == Has(ReqScore) /\ Val(ReqScore) <= 3
      hp == Has(ReqLtc) /\ Val(ReqLtc) >= 75
  IN /\ hi => ("engaged" \in tout /\ "at-risk" \notin tout)
     /\ lo => ("at-risk" \in tout /\ "engaged" \notin tout)
     /\ (~hi /\ ~lo) => (/\ "engaged" \in tout <=> "engaged" \in tin
                         /\ "at-risk" \in tout <=> "at-risk" \in tin)
     /\ "high-priority" \in tout <=> (hp \/ "high-priority" \in tin)

(* C7 as stated: the tag step applies the sentiment and likelihood rules   *)
(* and leaves every other tag as it was.                                   *)
C7_TagStepOriginal ==
  (Served("addCall") /\ last.engine)
  => LET tin == SeqSet(last.tagsIn)
         tout == SeqSet(last.tagsOut)
     IN /\ SentimentTagRules(tin, tout)
        /\ \A t \in (tin \cup tout) \ SentimentTags : t \in tout <=> t \in tin

(* the keywords of a pain-point tag occur in the request's pain points *)
PainHit(tag) ==
  LET pp == analysisField(last.body, "painPoints")
      text == IF Has(pp) THEN toLowerCase(join(Val(pp), <<" ">>)) ELSE <<>>
      words == CASE tag = "budget-concern" -> {Budget, Price, Cost}
                 [] tag = "compliance-blocker" -> {Compliance, Security, Legal}
                 [] tag = "urgent-timeline" -> {Timeline, Deadline, Urgent}
  IN \E k \in words : includes(text, k)

(* C7 amended: the tag step applies the sentiment and likelihood rules,    *)
(* adds budget-concern, compliance-blocker or urgent-timeline when the     *)
(* pain points contain one of the tag's keywords, and leaves every other   *)
(* tag as it was; no tag occurs twice.                                     *)
C7_TagStep ==
  (Served("addCall") /\ last.engine)
  => LET tin == SeqSet(last.tagsIn)
         tout == SeqSet(last.tagsOut)
     IN /\ SentimentTagRules(tin, tout)
        /\ \A t \in PainTags : t \in tout <=> (t \in tin \/ PainHit(t))
        /\ \A t \in (tin \cup tout) \ (SentimentTags \cup PainTags) : t \in tout <=> t \in tin
        /\ NoDup(last.tagsOut)

(* the second example of the spec, on an account that carried at-risk: the *)
(* step has added engaged and high-priority, removed at-risk and kept the  *)
(* tag enterprise *)
C7_Witness ==
  /\ Served("addCall")
  /\ last.engine
  /\ ReqScore = Some(9)
  /\ ReqLtc = Some(80)
  /\ last.tagsIn = <<"at-risk", "enterprise">>
  /\ last.tagsOut = <<"enterprise", "engaged", "high-priority">>

(* C8: no account's tags hold a duplicate in any reachable store state,    *)
(* after any createAccount, flagRisk and addCall requests.                 *)
C8_NoDuplicateTags == \A i \in 1..Len(store.accounts) : NoDup(store.accounts[i].tags)

(* a call with sentiment <= 3 has been served on an account that already   *)
(* carried at-risk, and the account still carries it *)
C8_Witness ==
  /\ Served("addCall")
  /\ last.engine
  /\ "at-risk" \in Tags(PreAcct)
  /\ Has(ReqScore)
  /\ Val(ReqScore) <= 3
  /\ "at-risk" \in Tags(PostAcct)

(* C9: when an addCall request on a non-terminal account has completed,    *)
(* likelihood < 30 implies that the account carries at-risk.               *)
C9_LowLikelihoodFlagged ==
  (Served("addCall") /\ last.engine)
  => (PostAcct.likelihood < 30 => "at-risk" \in Tags(PostAcct))

(* the tag step removed at-risk (sentiment >= 8) and the final check put   *)
(* it back because the likelihood is below 30 *)
C9_Witness ==
  /\ Served("addCall")
  /\ last.engine
  /\ Has(ReqScore)
  /\ Val(ReqScore) >= 8
  /\ "at-risk" \in SeqSet(last.tagsIn)
  /\ "at-risk" \notin SeqSet(last.tagsOut)
  /\ PostAcct.likelihood < 30
  /\ "at-risk" \in Tags(PostAcct)

(* the activities a request appended *)
Appended == SubSeq(store.activities, Len(last.pre.activities) + 1, Len(store.activities))

(* C10: updateAccountStage with the account's current stage changes        *)
(* nothing and appends no Activity; with a different valid stage it        *)
(* appends exactly one stage_change Activity.                              *)
C10_StageNoOp ==
  (Served("moveStage") /\ Targeted)
  => LET stage == Val(normalizeStage(last.body.stage))
     IN /\ SubSeq(store.activities, 1, Len(last.pre.activities)) = last.pre.activities
        /\ stage = PreAcct.stage => store = last.pre
        /\ stage # PreAcct.stage =>
             /\ PostAcct.stage = stage
             /\ Len(Appended) = 1
             /\ Appended[1].type = "stage_change"
             /\ Appended[1].accountId = Val(last.target)

(* a moveStage request naming the stage the account is in has been served *)
C10_Witness ==
  /\ Served("moveStage")
  /\ Targeted
  /\ Val(normalizeStage(last.body.stage)) = PreAcct.stage
  /\ last.body.stage = Some(ProposalUpper)

(* the accounts a company name matches: a missing or empty name matches    *)
(* none, any other name matches the accounts whose company contains it     *)
NamedByCompany(accts, name) ==
  IF ~Has(name) \/ Val(name) = <<>> THEN {}
  ELSE {i \in 1..Len(accts) : includes(toLowerCase(accts[i].company), toLowerCase(Val(name)))}

(* the accounts the last request names, in the store it found *)
NamedAccounts ==
  LET accts == last.pre.accounts
  IN CASE last.action = "addCall" -> {i \in 1..Len(accts) : accts[i].id = last.body.accountId}
       [] last.action = "moveStage" ->
            IF Has(last.body.accountId)
              THEN {i \in 1..Len(accts) : accts[i].id = Val(last.body.accountId)}
              ELSE NamedByCompany(accts, last.body.companyName)
       [] OTHER -> NamedByCompany(accts, last.body.companyName)

AtRiskCount(acct) == Cardinality({i \in 1..Len(acct.tags) : acct.tags[i] = "at-risk"})

(* C11: every flagRisk on an existing account leaves 'at-risk' exactly     *)
(* once in its tags, whether or not the tag was there, and appends exactly *)
(* one note, "AT-RISK: " followed by the reason; so n calls leave the tag  *)
(* once and append n notes.                                                *)
C11_FlagRiskOnce ==
  Served("flagRisk") =>
    /\ AtRiskCount(PostAcct) = 1
    /\ AtRiskCount(PreAcct) <= 1
    /\ PostAcct.notes = Append(PreAcct.notes, <<"AT-RISK: ">> \o last.body.reason)

(* a second flagRisk, with another reason, on an account already flagged *)
C11_Witness ==
  /\ Served("flagRisk")
  /\ "at-risk" \in Tags(PreAcct)
  /\ Len(PreAcct.notes) > 0
  /\ PreAcct.notes[Len(PreAcct.notes)][1] = "AT-RISK: "
  /\ PreAcct.notes[Len(PreAcct.notes)] # <<"AT-RISK: ">> \o last.body.reason
  /\ Len(PostAcct.notes) = Len(PreAcct.notes) + 1

(* C12: a moveStage, addNote, updateLikelihood, flagRisk or addCall        *)
(* request naming an account (by id or by company name, a missing or empty *)
(* name included) that matches no existing account gets an error response  *)
(* and leaves accounts, call records and activities unchanged.             *)
C12_UnknownAccountRejected ==
  (/\ last.action \in {"moveStage", "addNote", "updateLikelihood", "flagRisk", "addCall"}
   /\ NamedAccounts = {})
    => (last.status # 200 /\ store = last.pre)

(* C13: every call record references an existing account. *)
C13_CallRecordsReferenceAccounts ==
  \A i \in 1..Len(store.callRecords) :
    FindIndex(store.accounts, store.callRecords[i].accountId) > 0

(* C14: the copilot action sends no moveStage request that the server     *)
(* reads as closed_won unless the user clicked Approve on the approval     *)
(* card, and a Decline leaves the store as it was.                         *)
C14_ClosedWonNeedsApproval ==
  /\ (/\ last.action = "moveStage"
      /\ last.card.kind # "none"
      /\ normalizeStage(last.body.stage) = Some("closed_won"))
       => last.card.kind = "approval"
  /\ last.action = "decline" => store = last.pre

(* the accounts of the store, as a set of positions, that are in one of    *)
(* the given stages                                                        *)
InStages(S) == {i \in 1..Len(store.accounts) : store.accounts[i].stage \in S}

RECURSIVE Total(_, _)
(* the sum over the positions P of the accounts' field values v[i] *)
Total(P, v) == IF P = {} THEN 0 ELSE LET i == CHOOSE j \in P : TRUE IN v[i] + Total(P \ {i}, v)

DealValueAt == [i \in 1..Len(store.accounts) |-> store.accounts[i].dealValue]

LikelihoodAt == [i \in 1..Len(store.accounts) |-> store.accounts[i].likelihood]

WeightedAt ==
  [i \in 1..Len(store.accounts) |-> store.accounts[i].dealValue * store.accounts[i].likelihood]

OpenStages == StageSet \ {"closed_won", "closed_lost"}

(* x is an integer nearest to n / d, and 0 when the population is empty *)
IsMean(x, n, d) == IF d = 0 THEN x = 0 ELSE 2 * x * d - 2 * n \in (0 - d)..d

(* C15: countByStage and valueByStage have an entry for each of the six    *)
(* stages, the count of a stage is the number of accounts in it and its    *)
(* value the sum of their dealValue (zero for a stage without accounts),   *)
(* and the six counts add up to totalAccounts.                             *)
C15_StageBreakdown ==
  last.action = "getStats" =>
    /\ DOMAIN last.stats.countByStage = StageSet
    /\ DOMAIN last.stats.valueByStage = StageSet
    /\ \A s \in StageSet :
         /\ last.stats.countByStage[s] = Cardinality(InStages({s}))
         /\ last.stats.valueByStage[s] = Total(InStages({s}), DealValueAt)
    /\ Total(StageSet, last.stats.countByStage) = last.stats.totalAccounts
    /\ last.stats.totalAccounts = Len(store.accounts)

(* statistics of a store with an empty stage, a stage holding two accounts *)
(* and a lost deal                                                         *)
C15_Witness ==
  /\ last.action = "getStats"
  /\ \E s \in StageSet : last.stats.countByStage[s] = 0 /\ last.stats.valueByStage[s] = 0
  /\ \E s \in StageSet : last.stats.countByStage[s] = 2 /\ last.stats.valueByStage[s] = 24 + 96
  /\ last.stats.countByStage["closed_lost"] = 1

(* C16: totalPipelineValue is the sum of dealValue, and                    *)
(* weightedPipelineValue the sum of dealValue * likelihood / 100, over     *)
(* exactly the accounts that are neither closed_won nor closed_lost.       *)
C16_PipelineValueOpenOnly ==
  last.action = "getStats" =>
    /\ last.stats.totalPipelineValue = Total(InStages(OpenStages), DealValueAt)
    /\ last.stats.weightedPipelineValue = Total(InStages(OpenStages), WeightedAt)

(* C17: averageDealSize is the mean dealValue of all accounts and          *)
(* averageLikelihood the mean likelihood of the accounts that are neither  *)
(* closed_won nor closed_lost, each 0 when its population is empty.        *)
C17_Averages ==
  last.action = "getStats" =>
    /\ IsMean(last.stats.averageDealSize, DealUnit * Total(InStages(StageSet), DealValueAt),
              Len(store.accounts))
    /\ IsMean(last.stats.averageLikelihood, Total(InStages(OpenStages), LikelihoodAt),
              Cardinality(InStages(OpenStages)))

MutatingActions ==
  {"moveStage", "addNote", "updateLikelihood", "flagRisk", "addCall", "createAccount"}

HasArrow(message) == message # Undefined /\ includes(message, ArrowUndefined)

(* a snapshot's content with the two repairs of a load applied *)
Repaired(snapshot) ==
  LET kept == {i \in 1..Len(snapshot.activities) : ~HasArrow(snapshot.activities[i].message)}
  IN [accounts |->
        [i \in 1..Len(snapshot.accounts) |->
           IF snapshot.accounts[i].stage \in StageSet THEN snapshot.accounts[i]
           ELSE [snapshot.accounts[i] EXCEPT !.stage = "lead"]],
      callRecords |-> snapshot.callRecords,
      activities |-> snapshot.activities,
      kept |-> kept]

(* q is the sequence p restricted, in order, to the positions K *)
IsRestriction(q, p, K) ==
  /\ Len(q) = Cardinality(K)
  /\ \A i \in K : q[Cardinality({j \in K : j <= i})] = p[i]

(* C18: a load of a snapshot holding at least one account returns the      *)
(* snapshot's accounts with every stage outside the six reset to lead, its *)
(* call records as stored, and its activities, in order, without those     *)
(* whose message contains "-> undefined".                                  *)
C18_LoadRepairsOnly ==
  (/\ last.action \in {"init", "restart"}
   /\ file # NoFile
   /\ Len(Val(file).accounts) > 0)
    => /\ store.accounts = Repaired(Val(file)).accounts
       /\ store.callRecords = Val(file).callRecords
       /\ IsRestriction(store.activities, Val(file).activities, Repaired(Val(file)).kept)

(* C19: when a moveStage, addNote, updateLikelihood, flagRisk, addCall or  *)
(* createAccount request has changed the store and the disk accepted the   *)
(* writes, the snapshot holds exactly the accounts, call records and       *)
(* activities in memory, the tag and follow-up changes of addCall          *)
(* included.                                                               *)
C19_MutationPersisted ==
  (last.action \in MutatingActions /\ last.ok /\ store # last.pre) => file = Some(store)

(* an addCall whose rule engine changed the tags and the follow-up date    *)
(* after the last write of a store helper                                  *)
C19_Witness ==
  /\ last.action = "addCall" /\ last.engine /\ last.ok
  /\ last.tagsOut # last.tagsIn
  /\ PostAcct.nextFollowUp # PreAcct.nextFollowUp
  /\ PostAcct.tags = last.tagsOut
  /\ file = Some(store)

(* C20: a restart after a mutation whose write succeeded loads, from the   *)
(* snapshot that mutation wrote, the accounts, call records and activities *)
(* the store held.                                                         *)
C20_RestartKeepsStore ==
  (last.action \in MutatingActions /\ last.ok /\ store # last.pre) => loadStore(file) = store

(* C21: a request served while the snapshot write fails changes the store  *)
(* as it does when the write succeeds and gets the same response status,   *)
(* the snapshot keeps its content, and no later step that serves no        *)
(* request writes the snapshot (no rollback, no retry).                    *)
C21_WriteFailureStands ==
  [][/\ (nreq' = nreq + 1 /\ ~diskOk) =>
          LET r == Handle(last'.action, last'.body, World, TRUE, now)
          IN /\ store' = r.w.store
             /\ counter' = r.w.counter
             /\ last'.status = r.status
             /\ file' = file
     /\ nreq' = nreq => file' = file]_vars

(* a request that changed the store while the write failed: it answered    *)
(* 200 and the snapshot is not the store                                   *)
C21_Witness ==
  /\ last.action \in MutatingActions
  /\ ~last.ok
  /\ last.status = 200
  /\ store # last.pre
  /\ file # Some(store)

(* C22: every request that changes an account appends at least one         *)
(* activity, and every step other than a restart keeps the activities      *)
(* already in the log, unchanged and in place.                             *)
C22_ActivityLogComplete ==
  last.action \in MutatingActions =>
    /\ store.accounts # last.pre.accounts
         => Len(store.activities) > Len(last.pre.activities)
    /\ Len(store.activities) >= Len(last.pre.activities)
    /\ SubSeq(store.activities, 1, Len(last.pre.activities)) = last.pre.activities

(* the at-risk notes the last request appended to its account *)
AtRiskNotesAdded ==
  {i \in (Len(PreAcct.notes) + 1)..Len(PostAcct.notes) : PostAcct.notes[i][1] = "AT-RISK: "}

(* C26: one addCall request appends at most one at-risk note to its        *)
(* account, whatever the sentiment, the likelihoodToClose and the tags it  *)
(* had.                                                                    *)
C26_OneAtRiskNote ==
  (Served("addCall") /\ Targeted) => Cardinality(AtRiskNotesAdded) <= 1

(* the negative-sentiment flag fired and the likelihood ended below 30 *)
C26_Witness ==
  /\ Served("addCall")
  /\ last.engine
  /\ Has(ReqScore)
  /\ Val(ReqScore) <= 3
  /\ "at-risk" \notin Tags(PreAcct)
  /\ PostAcct.likelihood < 30
  /\ Cardinality(AtRiskNotesAdded) = 1

(* C27: an account that does not carry both engaged and at-risk before an  *)
(* addCall request does not carry both after it.                           *)
C27_EngagedExcludesAtRisk ==
  (Served("addCall") /\ Targeted /\ ~({"engaged", "at-risk"} \subseteq Tags(PreAcct)))
    => ~({"engaged", "at-risk"} \subseteq Tags(PostAcct))

(* C28: the success response of updateLikelihood carries in old the        *)
(* likelihood the account had before the request and in now the            *)
(* likelihood it has after it.                                             *)
C28_ResponseReportsStored ==
  Served("updateLikelihood") =>
    /\ last.reply.old = PreAcct.likelihood
    /\ last.reply.now = PostAcct.likelihood

(* C24: the call modal issues at most one analysis request for a call,     *)
(* also after the request failed.                                          *)
C24_NoAnalysisRetry == ui.kind = "modal" => ui.requests <= 1

(* the accounts of the store before the last webhook request whose company *)
(* or contact name occurs in its transcript, letter case aside             *)
Occurs(name, text) == includes(toLowerCase(text), toLowerCase(name))

Named ==
  LET tr == OrElse(last.body.transcript, <<>>)
  IN {i \in 1..Len(last.pre.accounts) :
        Occurs(last.pre.accounts[i].company, tr) \/ Occurs(last.pre.accounts[i].contactName, tr)}

FirstNamed == CHOOSE i \in Named : \A j \in Named : i <= j

CallsAdded == SubSeq(store.callRecords, Len(last.pre.callRecords) + 1, Len(store.callRecords))

CallsKept == SubSeq(store.callRecords, 1, Len(last.pre.callRecords)) = last.pre.callRecords

AccountsAdded == SubSeq(store.accounts, Len(last.pre.accounts) + 1, Len(store.accounts))

(* C25: an end-of-call report with a transcript of at least 20 characters  *)
(* adds exactly one call record: against the first account its transcript  *)
(* names, creating none, or, when it names none, against exactly one       *)
(* account it creates in stage lead (at once, or after its extraction, for *)
(* which it waits only when it named none); a shorter transcript and every *)
(* other event type change nothing.                                        *)
C25_OneCallRecordPerReport ==
  last.action = "vapi" =>
    IF last.body.type = "end-of-call-report" /\ Len(OrElse(last.body.transcript, <<>>)) >= 20
      THEN IF last.phase = "extracting" THEN Named = {} /\ store = last.pre
           ELSE /\ CallsKept
                /\ Len(CallsAdded) = 1
                /\ IF last.phase = "resumed" \/ Named = {}
                     THEN /\ Len(AccountsAdded) = 1
                          /\ AccountsAdded[1].stage = "lead"
                          /\ CallsAdded[1].accountId = AccountsAdded[1].id
                          /\ \A i \in 1..Len(last.pre.accounts) :
                               store.accounts[i].id = last.pre.accounts[i].id
                     ELSE /\ Len(AccountsAdded) = 0
                          /\ CallsAdded[1].accountId = last.pre.accounts[FirstNamed].id
      ELSE store = last.pre

C25_Witness ==
  /\ last.action = "vapi"
  /\ last.body.type = "end-of-call-report"
  /\ last.body.transcript = Some(TranscriptBoth)
  /\ Cardinality(Named) = 2
  /\ Len(CallsAdded) = 1
  /\ CallsAdded[1].accountId = 1

(* C29: two end-of-call reports of one not yet known company, both naming  *)
(* the company the extraction returns, leave at most one account of that   *)
(* company, in whatever order their handlers run.                          *)
C29_OneAccountPerCaller ==
  Cardinality({i \in 1..Len(store.accounts) :
                 /\ store.accounts[i].company = Acme
                 /\ \E c \in 1..Len(store.callRecords) :
                      /\ store.callRecords[c].accountId = store.accounts[i].id
                      /\ Occurs(Acme, store.callRecords[c].transcript)}) <= 1

(* C30: a click on Approve of the card shown for company X sends no move   *)
(* for an account of another company, whatever was asked for since the     *)
(* card appeared.                                                          *)
C30_ApproveMovesItsOwnAccount ==
  (ui.kind = "chat" /\ ui.clicked > 0 /\ last.action = "moveStage") =>
    /\ Has(last.target)
    /\ PreAcct.company = ui.cards[ui.clicked].company

(* the last two requests handled were in flight together, resolved the     *)
(* same account, and the later one is an updateLikelihood                  *)
RacedOnOneAccount ==
  /\ last.action = "updateLikelihood"
  /\ last.status = 200
  /\ last.prev.action # "init"
  /\ last.prev.status = 200
  /\ last.prev.target = last.target
  /\ \E k \in 1..Len(last.prev.inflight) : last.prev.inflight[k].conn = last.conn

(* the account before the earlier of the two requests *)
EarlierAcct == last.prev.pre.accounts[FindIndex(last.prev.pre.accounts, Val(last.target))]

====
